---- MODULE Spec2Model ----
(***************************************************************************)
(* Room synchronisation of file.airforce: the peer-side Y.js document      *)
(* manager (createYDoc), the room manager (join / outbox / seen-set), the  *)
(* hub (getOrCreateRoom, stream handler, gossip bridge) and persistence.   *)
(*                                                                         *)
(* A CRDT document is modelled by the set of operations it knows: applying *)
(* an update is set union (commutative, associative, idempotent), a delta  *)
(* is the set of operations of one transaction, the full-state snapshot    *)
(* (Y.encodeStateAsUpdate) is the whole set.                               *)
(***************************************************************************)
EXTENDS Integers, Sequences, FiniteSets, TLC

(***************************************************************************)
(* Bounds of the model.                                                    *)
(***************************************************************************)
MaxMut == 1
MaxNet == 1
MaxStreams == 2
MaxHubOps == 1
MaxPOps == 3
MaxMsgs == 2
MaxOver == 1
MaxReplays == 2
MaxJoins == 3
MaxFiles == 2
MaxPins == 2
MaxTicks == 6
MaxIssued == 2
MaxSaves == 3
MaxSubs == 2
MaxGets == 3

(***************************************************************************)
(* State.  Each component below has its own variables and specification;   *)
(* a component's actions leave the other components' variables unchanged.  *)
(***************************************************************************)

\* ---- peer sync engine (createYDoc) ----
VARIABLES
  phase,         \* peer -> "none" | "live": createYDoc has returned
  doc,           \* peer -> set of operations known to the peer's Y.Doc
  syncState,     \* peer -> "loading" | "syncing" | "synced"
  initTimer,     \* peer -> TRUE while setTimeout(requestSnapshot, 2000) is pending
  hubTimer,      \* peer -> TRUE while setTimeout(connectToHub, 1000) is pending
  hubConnected,  \* peer -> hubConnected && hubOutgoing
  hubDoc,        \* the hub's room document (fed by the peers' streams)
  net,           \* messages in flight to a peer's message or stream handler
  mesh,          \* TRUE once getSubscribers(topic) is non-empty on both peers
  nextOp,        \* number of local mutations made so far (names the next operation)
  lastRequest,   \* peer -> syncState when it last published SNAPSHOT_REQUEST, or "never"
  emitted        \* the last 'update' event of a peer's document: what updateHandler emitted

syncVars == <<phase, doc, syncState, initTimer, hubTimer, hubConnected,
              hubDoc, net, mesh, nextOp, lastRequest, emitted>>

\* ---- hub (server/hub.js) ----
VARIABLES
  rooms,          \* rooms.get(roomId): the room object in the map (its creator), 0 = absent
  roomMade,       \* caller -> TRUE once it has made a room object (new Y.Doc())
  roomDoc,        \* room object -> operations known to its ydoc
  roomStreams,    \* room object -> its streams map: peer -> outgoing queue (stream), 0 = none
  broadcastSetup, \* room object -> _broadcastSetup
  hpc,            \* stream -> "idle" | "loading" | "joined" | "closed": its handler's place
  held,           \* stream -> the room object its handler holds (0 = null)
  outQ,           \* stream -> messages pushed on its outgoing queue
  outEnded,       \* stream -> outgoing.end() was called
  subscribed,     \* the hub is subscribed to the room's gossip topic
  hubDisk,        \* content of <YDOCS_DIR>/<roomId>.yjs, NoFile if absent
  hubSaving,      \* full states handed to writeFile and not yet written
  gossipOut,      \* number of Y_UPDATE the hub published on the room topic
  lastIn,         \* the last new delta the hub applied: its path and the other streams
  lastEmit,       \* what the hub emitted while handling lastIn
  firstJoin,      \* the stream whose JOIN_ROOM the hub handled first, 0 = none yet
  firstMsg,       \* stream -> the first message its handler read, NoFirst before
  streamPeer      \* stream -> connection.remotePeer of the stream

hubVars == <<rooms, roomMade, roomDoc, roomStreams, broadcastSetup, hpc, held,
             outQ, outEnded, subscribed, hubDisk, hubSaving, gossipOut,
             lastIn, lastEmit, firstJoin, firstMsg, streamPeer>>

\* ---- persistence of a room document (YDocPersistence) ----
VARIABLES
  pphase,     \* "init" | "bound": createYDoc before / after load and bindDoc
  provider,   \* "opfs" | "indexeddb": the back-end YDocPersistence.init chose
  pdoc,       \* operations known to the document
  pstore,     \* the stored bytes (<docName>.yjs or the 'updates' record), NoFile if none
  psaving,    \* full states handed to provider.save and not yet stored, in call order
  plast,      \* the last 'update' event of the document: its origin, what it saved
  pnet        \* createYDoc has subscribed to the topic and armed the hub and request timers

persistVars == <<pphase, provider, pdoc, pstore, psaving, plast, pnet>>

\* ---- outbox of one topic (src/room.js) ----
VARIABLES
  entry,      \* outbox.has(topic)
  queue,      \* entry.queue
  attempts,   \* entry.attempts
  timer,      \* entry.timer is set
  delay,      \* the delay, before jitter, scheduleFlush last armed the timer with
  flights,    \* flushes suspended in 'await publish': the message each holds, and its outcome
  subs,       \* getSubsFor(topic).length > 0
  stable,     \* from now on the topic keeps its subscribers and publishes succeed
  sent,       \* messages pubsub.publish accepted, in the order of the calls
  enqueued,   \* messages publish() put in the queue
  pubNext     \* number of publish() calls made so far

outboxVars == <<entry, queue, attempts, timer, delay, flights, subs, stable, sent,
                enqueued, pubNext>>

\* ---- topic listener and seen-set of one topic (src/room.js) ----
VARIABLES
  seenMsg,    \* seenMsg.get(topic): the msgIds in insertion order
  fns,        \* subs.get(roomId).size
  fresh,      \* number of distinct msgIds that have arrived so far
  replays,    \* number of repeated arrivals so far
  dispatched, \* per watched msgId: times it was dispatched to the callbacks
  dropped,    \* per watched msgId: times an arrival was suppressed as seen
  evictions,  \* per watched msgId: times it was evicted from the seen-set
  forwarded,  \* per watched msgId: times a forward copy of it was scheduled
  lastMsg,    \* the last message the handler got: msgId, ttl, whether isSeen held
  lastFwd     \* the forward copy the handler scheduled for lastMsg, or NoForward

seenVars == <<seenMsg, fns, fresh, replays, dispatched, dropped, evictions, forwarded,
              lastMsg, lastFwd>>

\* ---- room manager: join of one room (current revision of room.js) ----
VARIABLES
  ydocs,            \* ydocs.get(roomId): "none", "promise" or "doc"
  pending,          \* join calls suspended in 'await getYDoc(roomId)', oldest first
  joinCalls,        \* number of join calls made so far
  joinedRooms,      \* joinedRooms.has(roomId)
  observers,        \* the observers registered on ydoc.manifest
  observerCleanups, \* the observers whose unobserve is recorded in observerCleanups
  handlers,         \* number of FILE_REQUEST handlers subscribed
  files,            \* number of files in the manifest
  lastJoin,         \* the most recent join call whose body has run
  lastChange        \* the last manifest event: what it invoked

joinVars == <<ydocs, pending, joinCalls, joinedRooms, observers, observerCleanups,
              handlers, files, lastJoin, lastChange>>

\* ---- hub: proactive pinning (mirror mode) ----
VARIABLES
  pinningSetup,  \* room._pinningSetup of each room object
  roomManifest,      \* room.manifest.get('files') of each room object: a list of cids
  pinnedCids,    \* the process-wide set pinnedCids
  pinning,       \* for each cid, the helia.pins.add iterations in progress
  pins,          \* the cids helia holds a pin for
  launched,      \* for each cid, the pin attempts started so far
  failed,        \* for each cid, the pin attempts that failed so far
  lastFire       \* the last run of a manifestObserver: what it found and started

pinVars == <<pinningSetup, roomManifest, pinnedCids, pinning, pins, launched, failed,
             lastFire>>

\* ---- life of one room document: timers, retry ticker, destroy (createYDoc) ----
VARIABLES
  life,           \* "none" | "live" | "destroyed"
  lifeState,      \* syncState of the document
  snapshotTimer,  \* setTimeout(requestSnapshot, 2000) is pending
  connectTimer,   \* setTimeout(connectToHub, 1000) is pending
  syncInterval,   \* the retry interval is set
  dialing,        \* connectToHub is awaiting dialProtocol
  hubOutgoing,    \* the hub stream is open (hubOutgoing && hubConnected)
  observing,      \* updateHandler is registered on the document
  bound,          \* the persistence handler is registered on the document
  ticks,          \* callbacks of the retry interval run so far
  now,            \* Date.now() - syncStartTime at the latest timer callback, ms
  lastTick,       \* the latest run of a snapshot timer callback: what it saw and did
  lastEvent,      \* the latest local change or malformed message: what became of it
  afterDestroy    \* what the document did after destroy()

lifeVars == <<life, lifeState, snapshotTimer, connectTimer, syncInterval, dialing,
              hubOutgoing, observing, bound, ticks, now, lastTick, lastEvent,
              afterDestroy>>

\* ---- browser-local state of a page (room.js publish, store.js, router.js) ----
VARIABLES
  issued,        \* number of publish() calls made so far
  lastPub,       \* the last publish(): the metadata it got and the metadata it sent
  localStorage,  \* localStorage: the item under each key, NoItem if never set
  saves,         \* number of saveDrop / saveRoom calls so far; Date.now() of the last
  lastSave,      \* the last save: its entry, and the list it found
  search,        \* location.search: the value of 'view' first, <<>> for none
  hidden,        \* hidden of each element view-<name>
  rendered,      \* renderView has run
  lastGoto       \* the view passed to the last goto, NoGoto before the first

localVars == <<issued, lastPub, localStorage, saves, lastSave, search, hidden,
               rendered, lastGoto>>

\* ---- room manager: handlers of one room topic (subscribe, destroyRoom) ----
VARIABLES
  subCalls,      \* number of subscribe calls made so far
  setOfCall,     \* subscribe call -> the Set its closures captured (the call that made it)
  inSet,         \* subscribe call -> its handler is in that Set
  listening,     \* subscribe call -> its messageHandler is a listener of pubsub
  unsubscribed,  \* subscribe call -> the function it returned was called
  mapSet,        \* handlers.get(roomId): the Set in the map, 0 = none
  topicSub,      \* the node is subscribed to the room topic
  docAlive,      \* the room's document is created and not destroyed
  lastDispatch   \* the last message of the topic: who was registered, who ran how often

topicVars == <<subCalls, setOfCall, inSet, listening, unsubscribed, mapSet, topicSub,
               docAlive, lastDispatch>>

\* ---- room manager: the documents of the rooms (getYDoc, destroyRoom) ----
VARIABLES
  ydocMap,       \* ydocs: room -> <<"none", 0>> | <<"promise", d>> | <<"doc", d>>
  createdFor,    \* the createYDoc runs so far: document d was created for createdFor[d]
  loaded,        \* the documents whose createYDoc promise has resolved
  liveDocs,      \* the documents that run: resolved and never destroyed
  getCalls,      \* the getYDoc calls so far: room, branch taken, position, result
  condemned      \* the documents that were pending or registered when destroyRoom ran

mgrVars == <<ydocMap, createdFor, loaded, liveDocs, getCalls, condemned>>

syncFrame == <<hubVars, persistVars, outboxVars, seenVars, joinVars, pinVars, lifeVars,
   localVars, topicVars, mgrVars>>

hubFrame == <<syncVars, persistVars, outboxVars, seenVars, joinVars, pinVars, lifeVars,
   localVars, topicVars, mgrVars>>

persistFrame == <<syncVars, hubVars, outboxVars, seenVars, joinVars, pinVars, lifeVars,
   localVars, topicVars, mgrVars>>

outboxFrame == <<syncVars, hubVars, persistVars, seenVars, joinVars, pinVars, lifeVars,
   localVars, topicVars, mgrVars>>

seenFrame == <<syncVars, hubVars, persistVars, outboxVars, joinVars, pinVars, lifeVars,
   localVars, topicVars, mgrVars>>

joinFrame == <<syncVars, hubVars, persistVars, outboxVars, seenVars, pinVars, lifeVars,
   localVars, topicVars, mgrVars>>

pinFrame == <<syncVars, hubVars, persistVars, outboxVars, seenVars, joinVars, lifeVars,
   localVars, topicVars, mgrVars>>

lifeFrame == <<syncVars, hubVars, persistVars, outboxVars, seenVars, joinVars, pinVars,
   localVars, topicVars, mgrVars>>

localFrame == <<syncVars, hubVars, persistVars, outboxVars, seenVars, joinVars, pinVars,
   lifeVars, topicVars, mgrVars>>

topicFrame == <<syncVars, hubVars, persistVars, outboxVars, seenVars, joinVars, pinVars,
   lifeVars, localVars, mgrVars>>

mgrFrame == <<syncVars, hubVars, persistVars, outboxVars, seenVars, joinVars, pinVars,
   lifeVars, localVars, topicVars>>

vars == <<syncVars, hubVars, persistVars, outboxVars, seenVars, joinVars, pinVars,
          lifeVars, localVars, topicVars, mgrVars>>

(***************************************************************************)
(* ======================  PEER SYNC ENGINE  ============================  *)
(* createYDoc: two peers on one room topic, one hub offering /y-sync/1.0.0 *)
(***************************************************************************)

Peers == {"A", "B"}

Other(p) == IF p = "A" THEN "B" ELSE "A"


NoEvent == [origin |-> "none", gossip |-> 0, hub |-> 0, open |-> FALSE]

InitSync ==
  /\ phase = [p \in Peers |-> "none"]
  /\ doc = [p \in Peers |-> {}]
  /\ syncState = [p \in Peers |-> "loading"]
  /\ initTimer = [p \in Peers |-> FALSE]
  /\ hubTimer = [p \in Peers |-> FALSE]
  /\ hubConnected = [p \in Peers |-> FALSE]
  /\ hubDoc = {}
  /\ net = {}
  /\ mesh = FALSE
  /\ nextOp = 0
  /\ lastRequest = [p \in Peers |-> "never"]
  /\ emitted = NoEvent

\* The hub subscribes to the room topic once a stream has made it create the
\* room; from then on its gossip bridge may hear a published Y_UPDATE.
HubHears == {FALSE} \cup {h \in {TRUE} : \E q \in Peers : hubConnected[q]}

NetRoom == Cardinality(net) < MaxNet

\* msg.update.length: the byte length of an encoded update; Y.js encodes even the
\* empty update as two bytes (no structs, no deletes).
UpdateLength(update) == 2 + Cardinality(update)

\* pubsub.publish(topic, enc(msg)): reaches the other peer when the mesh has
\* formed; otherwise it rejects with NoPeersSubscribedToTopic, which every
\* caller catches and ignores, and the message is gone.
GossipPublish(p, type, update) ==
  IF mesh /\ phase[Other(p)] = "live"
  THEN {[to |-> Other(p), type |-> type, update |-> update]}
  ELSE {}

\* An update observer that uses gossip only as the fallback of the hub stream.
updateHandlerFallback(origin, open) ==
  IF origin \in {"network", "storage", "hub-stream"}
  THEN [gossip |-> 0, hub |-> 0]
  ELSE [gossip |-> IF open THEN 0 ELSE 1, hub |-> IF open THEN 1 ELSE 0]

\* The earlier revision of updateHandler (src/ydoc.js): it returns for the
\* origins 'network' and 'storage' only.
updateHandlerEarlier(origin, open) ==
  IF origin \in {"network", "storage"}
  THEN [gossip |-> 0, hub |-> 0]
  ELSE [gossip |-> 1, hub |-> 0]

\* An update observer that does not look at the origin.
updateHandlerRelays(origin, open) ==
  [gossip |-> 1, hub |-> IF open THEN 1 ELSE 0]

\* updateHandler(update, origin) with the hub stream open or not
\* (hubConnected && hubOutgoing): how many Y_UPDATE it publishes on the topic
\* and pushes on the hub stream.
updateHandler(origin, open) ==
  IF origin \in {"network", "storage", "hub-stream"}
  THEN [gossip |-> 0, hub |-> 0]
  ELSE [gossip |-> 1, hub |-> IF open THEN 1 ELSE 0]

\* Y.applyUpdate(ydoc, update, origin) on peer p's document: an update that
\* brings something new fires the 'update' event and updateHandler runs with
\* the delta.  Gives what was emitted and the messages published on gossip.
applyRemote(p, update, origin) ==
  LET delta == update \ doc[p]
      e == updateHandler(origin, hubConnected[p]) IN
  IF delta = {}
  THEN [event |-> emitted, msgs |-> {}, pushed |-> {}]
  ELSE [event |-> [origin |-> origin, gossip |-> e.gossip, hub |-> e.hub,
                   open |-> hubConnected[p]],
        msgs |-> IF e.gossip > 0 THEN GossipPublish(p, "Y_UPDATE", delta) ELSE {},
        pushed |-> IF e.hub > 0 THEN delta ELSE {}]

\* createYDoc returns: syncState 'loading', both timers armed, topic subscribed.
CreateYDoc(p) ==
  /\ phase[p] = "none"
  /\ phase' = [phase EXCEPT ![p] = "live"]
  /\ initTimer' = [initTimer EXCEPT ![p] = TRUE]
  /\ hubTimer' = [hubTimer EXCEPT ![p] = TRUE]
  /\ UNCHANGED <<doc, syncState, hubConnected, hubDoc, net, mesh, nextOp, lastRequest, emitted>>
  /\ UNCHANGED syncFrame

\* The gossip mesh forms: each peer now sees the other as a topic subscriber.
FormMesh ==
  /\ ~mesh
  /\ \A p \in Peers : phase[p] = "live"
  /\ mesh' = TRUE
  /\ UNCHANGED <<phase, doc, syncState, initTimer, hubTimer, hubConnected,
                 hubDoc, net, nextOp, lastRequest, emitted>>
  /\ UNCHANGED syncFrame

\* setManifest / sendChat: a local transaction, then updateHandler(update, origin)
\* with a local origin: push to the hub stream if connected, publish on gossip.
LocalMutate(p) ==
  /\ phase[p] = "live"
  /\ nextOp < MaxMut
  /\ NetRoom
  /\ LET op == <<p, nextOp + 1>>
         e == updateHandler("local", hubConnected[p]) IN
       /\ doc' = [doc EXCEPT ![p] = @ \cup {op}]
       /\ \E heard \in HubHears :
            hubDoc' = IF e.hub > 0 \/ (heard /\ e.gossip > 0)
                      THEN hubDoc \cup {op} ELSE hubDoc
       /\ net' = net \cup (IF e.gossip > 0 THEN GossipPublish(p, "Y_UPDATE", {op}) ELSE {})
       /\ emitted' = [origin |-> "local", gossip |-> e.gossip, hub |-> e.hub,
                      open |-> hubConnected[p]]
  /\ nextOp' = nextOp + 1
  /\ UNCHANGED <<phase, syncState, initTimer, hubTimer, hubConnected, mesh, lastRequest>>
  /\ UNCHANGED syncFrame

\* connectToHub (fired by the 1 s timer): no peer or no peer speaking the protocol
\* -> false; else JOIN_ROOM is sent and the hub answers SYNC_FULL_STATE.
ConnectToHub(p) ==
  /\ phase[p] = "live"
  /\ hubTimer[p]
  /\ NetRoom
  /\ hubTimer' = [hubTimer EXCEPT ![p] = FALSE]
  /\ \E found \in BOOLEAN :
       IF found
       THEN /\ hubConnected' = [hubConnected EXCEPT ![p] = TRUE]
            /\ net' = net \cup {[to |-> p, type |-> "SYNC_FULL_STATE", update |-> hubDoc]}
       ELSE UNCHANGED <<hubConnected, net>>
  /\ UNCHANGED <<phase, doc, syncState, initTimer, hubDoc, mesh, nextOp, lastRequest, emitted>>
  /\ UNCHANGED syncFrame

\* requestSnapshot: returns early while the mesh is missing, peers are connected
\* and the 10 s mesh timeout has not elapsed (waiting); otherwise sets
\* syncState = 'syncing' and publishes SNAPSHOT_REQUEST.
requestSnapshot(p, waiting) ==
  IF ~mesh /\ waiting
  THEN UNCHANGED <<syncState, net, lastRequest>>
  ELSE /\ syncState' = [syncState EXCEPT ![p] = "syncing"]
       /\ net' = net \cup GossipPublish(p, "SNAPSHOT_REQUEST", {})
       /\ lastRequest' = [lastRequest EXCEPT ![p] = syncState[p]]

\* setTimeout(requestSnapshot, 2000)
InitialRequest(p) ==
  /\ phase[p] = "live"
  /\ initTimer[p]
  /\ NetRoom
  /\ initTimer' = [initTimer EXCEPT ![p] = FALSE]
  /\ \E waiting \in BOOLEAN : requestSnapshot(p, waiting)
  /\ UNCHANGED <<phase, doc, hubTimer, hubConnected, hubDoc, mesh, nextOp, emitted>>
  /\ UNCHANGED syncFrame

\* setInterval(() => { if (syncState !== 'synced') requestSnapshot() }, 2000)
SyncIntervalTick(p) ==
  /\ phase[p] = "live"
  /\ syncState[p] # "synced"
  /\ NetRoom
  /\ \E waiting \in BOOLEAN : requestSnapshot(p, waiting)
  /\ UNCHANGED <<phase, doc, initTimer, hubTimer, hubConnected, hubDoc, mesh, nextOp, emitted>>
  /\ UNCHANGED syncFrame

\* A SNAPSHOT handler that sends the snapshot back as it came.
ourStateEchoed(p, update) == update

\* Y.encodeStateAsUpdate(ydoc) once the snapshot is applied: the peer's own
\* operations and the snapshot's.
ourState(p, update) == doc[p] \cup update

\* messageHandler: a gossip message of the room topic, by type.
messageHandler(m) ==
  LET p == m.to IN
  /\ phase[p] = "live"
  /\ CASE m.type = "Y_UPDATE" ->
            LET a == applyRemote(p, m.update, "network") IN
            /\ doc' = [doc EXCEPT ![p] = @ \cup m.update]
            /\ syncState' = [syncState EXCEPT ![p] =
                               IF UpdateLength(m.update) > 0 THEN "synced" ELSE @]
            /\ net' = (net \ {m}) \cup a.msgs
            /\ emitted' = a.event
            /\ hubDoc' = hubDoc \cup a.pushed
       [] m.type = "SNAPSHOT_REQUEST" ->
            /\ net' = (net \ {m}) \cup GossipPublish(p, "SNAPSHOT", doc[p])
            /\ UNCHANGED <<doc, syncState, hubDoc, emitted>>
       [] m.type = "SNAPSHOT" ->
            LET a == applyRemote(p, m.update, "network") IN
            /\ doc' = [doc EXCEPT ![p] = @ \cup m.update]
            /\ syncState' = [syncState EXCEPT ![p] = "synced"]
            /\ net' = (net \ {m}) \cup a.msgs
                         \cup GossipPublish(p, "Y_UPDATE", ourState(p, m.update))
            /\ emitted' = a.event
            /\ \E heard \in HubHears :
                 hubDoc' = IF heard THEN hubDoc \cup ourState(p, m.update)
                           ELSE hubDoc \cup a.pushed

\* The reader of the hub stream (connectToHub): SYNC_FULL_STATE from the hub.
hubStreamReader(m) ==
  LET p == m.to
      a == applyRemote(p, m.update, "hub-stream") IN
  /\ phase[p] = "live"
  /\ doc' = [doc EXCEPT ![p] = @ \cup m.update]
  /\ syncState' = [syncState EXCEPT ![p] = "synced"]
  /\ net' = (net \ {m}) \cup a.msgs
  /\ emitted' = a.event
  /\ hubDoc' = hubDoc \cup a.pushed

\* The hub stream of peer p ends or fails: the reader's finally sets
\* hubConnected = false and hubOutgoing = null; what the hub had sent and was
\* not read is gone.  connectToHub is not called again.
HubStreamClosed(p) ==
  /\ hubConnected[p]
  /\ hubConnected' = [hubConnected EXCEPT ![p] = FALSE]
  /\ net' = {m \in net : ~(m.to = p /\ m.type = "SYNC_FULL_STATE")}
  /\ UNCHANGED <<phase, doc, syncState, initTimer, hubTimer, hubDoc, mesh, nextOp,
                 lastRequest, emitted>>
  /\ UNCHANGED syncFrame

GossipTypes == {"Y_UPDATE", "SNAPSHOT_REQUEST", "SNAPSHOT"}

Deliver ==
  /\ \E m \in net : m.type \in GossipTypes /\ messageHandler(m)
  /\ UNCHANGED <<phase, initTimer, hubTimer, hubConnected, mesh, nextOp, lastRequest>>
  /\ UNCHANGED syncFrame

HubDeliver ==
  /\ \E m \in net : m.type = "SYNC_FULL_STATE" /\ hubStreamReader(m)
  /\ UNCHANGED <<phase, initTimer, hubTimer, hubConnected, mesh, nextOp, lastRequest>>
  /\ UNCHANGED syncFrame

NextSync ==
  \/ \E p \in Peers : CreateYDoc(p)
  \/ FormMesh
  \/ \E p \in Peers : LocalMutate(p)
  \/ \E p \in Peers : ConnectToHub(p)
  \/ \E p \in Peers : InitialRequest(p)
  \/ \E p \in Peers : SyncIntervalTick(p)
  \/ Deliver
  \/ HubDeliver
  \/ \E p \in Peers : HubStreamClosed(p)

(***************************************************************************)
(* Claims about the peer sync engine.                                      *)
(***************************************************************************)

\* Nothing is in flight, no timer is pending and no retry tick will publish:
\* from here only a further local mutation can change anything.
Quiescent ==
  /\ \A p \in Peers : /\ phase[p] = "live"
                       /\ syncState[p] = "synced"
                       /\ ~initTimer[p]
                       /\ ~hubTimer[p]
  /\ net = {}
  /\ mesh

\* C1 (Convergence): once the two joined peers are quiescent (all in-flight
\* messages delivered, mesh formed, nothing left to fire) both hold the same
\* document state.
C1_Convergence == Quiescent => doc["A"] = doc["B"]

\* C3 (Sync state is monotone): a document whose sync state is 'synced' never
\* goes back to 'syncing' or 'loading', whatever timer or message comes next.
C3_SyncedIsStable ==
  [][\A p \in Peers : syncState[p] = "synced" => syncState'[p] = "synced"]_syncVars

\* C4 (No request once synced): no SNAPSHOT_REQUEST is published by a peer
\* whose state is 'synced'; the delayed initial request included.
C4_NoRequestOnceSynced == \A p \in Peers : lastRequest[p] # "synced"

\* C13 (Broadcast of local deltas): for an update of local origin the peer
\* publishes exactly one Y_UPDATE on the gossip topic, hub stream or not, and
\* pushes exactly one on the hub stream if and only if the stream is open.
C13_LocalBroadcast ==
  emitted.origin = "local" =>
    /\ emitted.gossip = 1
    /\ emitted.hub = IF emitted.open THEN 1 ELSE 0

\* A local update with the hub stream open went to both.
C13_Witness ==
  /\ emitted.origin = "local"
  /\ emitted.open
  /\ emitted.gossip = 1
  /\ emitted.hub = 1

\* C14 (Loop prevention): the update observer emits nothing, neither on gossip
\* nor on the hub stream, for an update whose origin is network, storage or
\* hub-stream: a delta the peer received is not sent on by it.
C14_ObserverSilent ==
  emitted.origin \in {"network", "storage", "hub-stream"} =>
    emitted.gossip = 0 /\ emitted.hub = 0

\* With the mesh formed and the hub stream open, a peer applied new operations
\* from the hub stream and emitted nothing.
C14_Witness ==
  /\ emitted.origin = "hub-stream"
  /\ emitted.open
  /\ mesh
  /\ emitted.gossip = 0
  /\ emitted.hub = 0

\* The place of a message type in the exchange a request starts.
Rank(type) ==
  CASE type = "SNAPSHOT_REQUEST" -> 3
    [] type = "SNAPSHOT" -> 2
    [] type = "Y_UPDATE" -> 1
    [] OTHER -> 0

\* C35 (A request causes finitely many messages): the peer that handles a
\* SNAPSHOT_REQUEST publishes one SNAPSHOT with its full state and nothing
\* else, the peer that handles a SNAPSHOT publishes one Y_UPDATE and nothing
\* else, and the peer that handles a Y_UPDATE publishes nothing; so every
\* message handled is replaced by at most one message of a lower rank, and the
\* exchange a request starts ends.
C35_ExchangeTerminates ==
  /\ [][\A m \in net :
         (m.type = "SNAPSHOT_REQUEST" /\ m \notin net') =>
           /\ [to |-> Other(m.to), type |-> "SNAPSHOT", update |-> doc[m.to]] \in net'
           /\ \A n \in net' \ net : n.type = "SNAPSHOT"]_vars
  /\ [][\A m \in net :
         (m.type = "SNAPSHOT" /\ m \notin net') =>
           \A n \in net' \ net : n.type = "Y_UPDATE"]_vars
  /\ [][\A m \in net :
         (m.type = "Y_UPDATE" /\ m \notin net') => net' \subseteq net]_vars
  /\ [][\A m \in net :
         (m.type \in GossipTypes /\ m \notin net') =>
           /\ Cardinality(net' \ net) <= 1
           /\ \A n \in net' \ net : Rank(n.type) < Rank(m.type)]_vars

\* A peer has asked for a snapshot and the exchange has run out: nothing is in
\* flight and both peers hold the same, non-empty state.
C35_Witness ==
  /\ \E p \in Peers : lastRequest[p] # "never"
  /\ net = {}
  /\ mesh
  /\ \A p \in Peers : syncState[p] = "synced"
  /\ doc["A"] = doc["B"]
  /\ doc["A"] # {}

\* C29 (Snapshot is answered): the peer that handles a SNAPSHOT applies it with
\* origin network (and so its update observer emits nothing), is synced, and
\* publishes one Y_UPDATE and no other message; the Y_UPDATE goes to the sender
\* of the snapshot and carries the peer's full state after the merge; and the
\* peer that handles a Y_UPDATE holds everything the update carries.
C29_SnapshotAnswered ==
  /\ [][\A m \in net :
         (m.type = "SNAPSHOT" /\ m \notin net') =>
           LET p == m.to
               reply == [to |-> Other(p), type |-> "Y_UPDATE",
                         update |-> doc[p] \cup m.update]
           IN  /\ doc'[p] = doc[p] \cup m.update
               /\ syncState'[p] = "synced"
               /\ (m.update \ doc[p] # {}) =>
                     (emitted'.origin = "network" /\ emitted'.gossip = 0)
               /\ reply \in net'
               /\ (net' \ net) \subseteq {reply}]_vars
  /\ [][\A m \in net :
         (m.type = "Y_UPDATE" /\ m \notin net') => m.update \subseteq doc'[m.to]]_vars

\* A peer that handled a SNAPSHOT is synced and its answer is in flight to the
\* sender: a Y_UPDATE with the peer's whole state, the sender's own operation
\* included.
C29_Witness ==
  \E m \in net :
    /\ m.type = "Y_UPDATE"
    /\ m.to = "B"
    /\ <<"B", 1>> \in m.update
    /\ m.update = doc["A"]
    /\ syncState["A"] = "synced"

(***************************************************************************)
(* ==============================  HUB  =================================  *)
(* server/hub.js: the rooms map, getOrCreateRoom with its broadcast patch, *)
(* the /y-sync/1.0.0 stream handler, the gossip bridge and the Y.Doc file. *)
(* One roomId; every stream joins it.                                      *)
(***************************************************************************)


Streams == 1..MaxStreams

HubPeers == {"P", "Q"}

\* connection.remotePeer of a stream.
remotePeer(s) == streamPeer[s]

\* Odd streams come from P, even ones from Q.
TwoPeers == [s \in Streams |-> IF s % 2 = 1 THEN "P" ELSE "Q"]

\* Every stream comes from P: a peer that dials the hub again.
OnePeer == [s \in Streams |-> "P"]

\* What a handler's first reader.next() gives: the end of the stream, or a
\* message with its type and whether it has a roomId.
FirstMsgs ==
  {[done |-> TRUE, type |-> "", roomId |-> FALSE],
   [done |-> FALSE, type |-> "JOIN_ROOM", roomId |-> TRUE],
   [done |-> FALSE, type |-> "JOIN_ROOM", roomId |-> FALSE],
   [done |-> FALSE, type |-> "Y_UPDATE", roomId |-> TRUE]}

NoFirst == [done |-> FALSE, type |-> "", roomId |-> FALSE]

\* A handshake that asks for a roomId only.
acceptedAnyType(first) == ~first.done /\ first.roomId

\* The handler goes on to getOrCreateRoom: neither 'No JOIN_ROOM message
\* received' nor 'First message must be JOIN_ROOM with roomId' is thrown.
accepted(first) == ~first.done /\ first.type = "JOIN_ROOM" /\ first.roomId

HubOps == 1..MaxHubOps

NoFile == {-1}

NoEmit == [pushes |-> [q \in HubPeers |-> 0], gossip |-> 0]

InitHub ==
  /\ rooms = 0
  /\ roomMade = [s \in Streams |-> FALSE]
  /\ roomDoc = [s \in Streams |-> {}]
  /\ roomStreams = [s \in Streams |-> [q \in HubPeers |-> 0]]
  /\ broadcastSetup = [s \in Streams |-> FALSE]
  /\ hpc = [s \in Streams |-> "idle"]
  /\ held = [s \in Streams |-> 0]
  /\ outQ = [s \in Streams |-> <<>>]
  /\ outEnded = [s \in Streams |-> FALSE]
  /\ subscribed = FALSE
  /\ hubDisk \in {NoFile, {0}}
  /\ hubSaving = {}
  /\ gossipOut = 0
  /\ lastIn = [path |-> "none", others |-> {}]
  /\ lastEmit = NoEmit
  /\ firstJoin = 0
  /\ firstMsg = [s \in Streams |-> NoFirst]
  /\ streamPeer \in {TwoPeers, OnePeer}

\* setupRoomBroadcast's update observer: nothing for origin 'gossipsub' or
\* 'stream'; otherwise one Y_UPDATE on every queue of the room's streams map and
\* one publish on the room topic.  Gives <<outQ', gossipOut', emitted>>.
setupRoomBroadcast(o, update, origin) ==
  IF origin = "gossipsub" \/ origin = "stream"
  THEN <<outQ, gossipOut, NoEmit>>
  ELSE LET targets == {roomStreams[o][q] : q \in HubPeers} \ {0} IN
       << [s \in Streams |->
             IF s \in targets
             THEN Append(outQ[s], [type |-> "Y_UPDATE", update |-> update])
             ELSE outQ[s]],
          gossipOut + 1,
          [pushes |-> [q \in HubPeers |-> IF roomStreams[o][q] # 0 THEN 1 ELSE 0],
           gossip |-> 1] >>

\* Y.applyUpdate(room.ydoc, update, origin) on room object o.  An update that
\* brings nothing new fires no 'update' event.  Otherwise the auto-save observer
\* calls saveYDocState (state encoded at once, written later) and the broadcast
\* observer runs if this object had it set up.
applyUpdate(o, update, origin, path) ==
  IF update \subseteq roomDoc[o]
  THEN UNCHANGED <<roomDoc, hubSaving, outQ, gossipOut, lastIn, lastEmit>>
  ELSE LET b == IF broadcastSetup[o]
                THEN setupRoomBroadcast(o, update, origin)
                ELSE <<outQ, gossipOut, NoEmit>> IN
       /\ roomDoc' = [roomDoc EXCEPT ![o] = @ \cup update]
       /\ hubSaving' = hubSaving \cup {roomDoc[o] \cup update}
       /\ outQ' = b[1]
       /\ gossipOut' = b[2]
       /\ lastEmit' = b[3]
       /\ lastIn' = [path |-> path,
                     others |-> {q \in HubPeers : roomStreams[o][q] # 0} \ {path}]

\* The handler, once getOrCreateRoom has returned room object o to stream s:
\* room.streams.set(remotePeer, outgoing), then SYNC_FULL_STATE with the full state.
joinRoom(s, o, docNow, streamsNow) ==
  /\ held' = [held EXCEPT ![s] = o]
  /\ roomStreams' = [streamsNow EXCEPT ![o][remotePeer(s)] = s]
  /\ outQ' = [outQ EXCEPT ![s] =
                Append(@, [type |-> "SYNC_FULL_STATE", update |-> docNow])]
  /\ hpc' = [hpc EXCEPT ![s] = "joined"]

\* getOrCreateRoom once the saved state (if any) is read: apply it, register
\* the auto-save observer, rooms.set(roomId, room), return rooms.get(roomId);
\* then the patch: setupRoomBroadcast and topic subscription (guarded by
\* _broadcastSetup); then the handler joins.
finishCreate(s, saved) ==
  LET docNow == IF saved = NoFile THEN {} ELSE saved IN
  /\ roomDoc' = [roomDoc EXCEPT ![s] = docNow]
  /\ rooms' = s
  /\ broadcastSetup' = [broadcastSetup EXCEPT ![s] = TRUE]
  /\ subscribed' = TRUE
  /\ joinRoom(s, s, docNow, roomStreams)

\* A stream opens and its first message is JOIN_ROOM with a roomId: the handler
\* calls getOrCreateRoom.  rooms.has(roomId): the room in the map is returned.
\* Otherwise a room object is made; with no file on disk loadYDocState returns
\* without I/O and creation completes in the same turn, with a file the caller
\* is suspended in readFile.
HubJoin(s) ==
  /\ hpc[s] = "idle"
  /\ \E first \in FirstMsgs :
       accepted(first) /\ firstMsg' = [firstMsg EXCEPT ![s] = first]
  /\ UNCHANGED streamPeer
  /\ IF rooms # 0
     THEN /\ joinRoom(s, rooms, roomDoc[rooms], roomStreams)
          /\ UNCHANGED <<rooms, roomMade, roomDoc, broadcastSetup, subscribed>>
     ELSE /\ roomMade' = [roomMade EXCEPT ![s] = TRUE]
          /\ IF hubDisk = NoFile
             THEN finishCreate(s, NoFile)
             ELSE /\ hpc' = [hpc EXCEPT ![s] = "loading"]
                  /\ UNCHANGED <<rooms, roomDoc, roomStreams, broadcastSetup,
                                 held, outQ, subscribed>>
  /\ firstJoin' = IF firstJoin = 0 THEN s ELSE firstJoin
  /\ UNCHANGED <<outEnded, hubDisk, hubSaving, gossipOut, lastIn, lastEmit>>
  /\ UNCHANGED hubFrame

\* readFile resolves for a suspended caller.
HubLoaded(s) ==
  /\ hpc[s] = "loading"
  /\ finishCreate(s, hubDisk)
  /\ UNCHANGED <<roomMade, outEnded, hubDisk, hubSaving, gossipOut, lastIn, lastEmit>>
  /\ UNCHANGED <<firstJoin, firstMsg, streamPeer>>
  /\ UNCHANGED hubFrame

\* The first message is missing or is not JOIN_ROOM with a roomId: the handler
\* throws; finally: room is null, outgoing.end().
HubBadHandshake(s) ==
  /\ hpc[s] = "idle"
  /\ \E first \in FirstMsgs :
       ~accepted(first) /\ firstMsg' = [firstMsg EXCEPT ![s] = first]
  /\ hpc' = [hpc EXCEPT ![s] = "closed"]
  /\ outEnded' = [outEnded EXCEPT ![s] = TRUE]
  /\ UNCHANGED <<rooms, roomMade, roomDoc, roomStreams, broadcastSetup, held,
                 outQ, subscribed, hubDisk, hubSaving, gossipOut, lastIn, lastEmit>>
  /\ UNCHANGED <<firstJoin, streamPeer>>
  /\ UNCHANGED hubFrame

\* A joined stream delivers Y_UPDATE: Y.applyUpdate(room.ydoc, update, 'stream').
HubStreamUpdate(s) ==
  /\ hpc[s] = "joined"
  /\ \E op \in HubOps : applyUpdate(held[s], {op}, "stream", remotePeer(s))
  /\ UNCHANGED <<rooms, roomMade, roomStreams, broadcastSetup, hpc, held,
                 outEnded, subscribed, hubDisk>>
  /\ UNCHANGED <<firstJoin, firstMsg, streamPeer>>
  /\ UNCHANGED hubFrame

\* The bridge: a Y_UPDATE arrives on the subscribed room topic and is applied to
\* the room in the map with origin 'gossipsub'.  (A message of the topic can
\* arrive only once the hub has subscribed, that is after rooms.set.)
HubGossipUpdate ==
  /\ subscribed
  /\ rooms # 0
  /\ \E op \in HubOps : applyUpdate(rooms, {op}, "gossipsub", "gossip")
  /\ UNCHANGED <<rooms, roomMade, roomStreams, broadcastSetup, hpc, held,
                 outEnded, subscribed, hubDisk>>
  /\ UNCHANGED <<firstJoin, firstMsg, streamPeer>>
  /\ UNCHANGED hubFrame

\* A finally block that leaves the room's streams map as it is.
streamsKept(o, peer) == roomStreams

\* room.streams.delete(remotePeer) on room object o.
streamsDelete(o, peer) == [roomStreams EXCEPT ![o][peer] = 0]

\* The read loop of a joined stream ends (normally or by an error); finally:
\* room.streams.delete(remotePeer), outgoing.end().
HubStreamExit(s) ==
  /\ hpc[s] = "joined"
  /\ hpc' = [hpc EXCEPT ![s] = "closed"]
  /\ roomStreams' = streamsDelete(held[s], remotePeer(s))
  /\ outEnded' = [outEnded EXCEPT ![s] = TRUE]
  /\ UNCHANGED <<rooms, roomMade, roomDoc, broadcastSetup, held, outQ,
                 subscribed, hubDisk, hubSaving, gossipOut, lastIn, lastEmit>>
  /\ UNCHANGED <<firstJoin, firstMsg, streamPeer>>
  /\ UNCHANGED hubFrame

\* A writeFile started by saveYDocState completes: the file holds that state.
HubSaveDone ==
  /\ \E st \in hubSaving :
       /\ hubDisk' = st
       /\ hubSaving' = hubSaving \ {st}
  /\ UNCHANGED <<rooms, roomMade, roomDoc, roomStreams, broadcastSetup, hpc,
                 held, outQ, outEnded, subscribed, gossipOut, lastIn, lastEmit>>
  /\ UNCHANGED <<firstJoin, firstMsg, streamPeer>>
  /\ UNCHANGED hubFrame

NextHub ==
  \/ \E s \in Streams : HubJoin(s)
  \/ \E s \in Streams : HubLoaded(s)
  \/ \E s \in Streams : HubBadHandshake(s)
  \/ \E s \in Streams : HubStreamUpdate(s)
  \/ HubGossipUpdate
  \/ \E s \in Streams : HubStreamExit(s)
  \/ HubSaveDone

(***************************************************************************)
(* Claims about the hub.                                                   *)
(***************************************************************************)

\* C2 (Hub bridge neutrality): for the delta the hub last took in, it emitted
\* exactly one Y_UPDATE on every other stream of the room and, unless the delta
\* came from gossip, one on the gossip topic; nothing on the path it came from.
C2_BridgeNeutrality ==
  lastIn.path # "none" =>
    /\ \A q \in lastIn.others : lastEmit.pushes[q] = 1
    /\ lastIn.path # "gossip" => lastEmit.gossip = 1
    /\ lastIn.path = "gossip" => lastEmit.gossip = 0
    /\ lastIn.path \in HubPeers => lastEmit.pushes[lastIn.path] = 0

\* C9 (Hub room creation is concurrency-safe): at most one room object is ever
\* made for the roomId, and every joined stream holds the room that is in the
\* rooms map (so its queue is in that room's stream set).
C9_SingleRoom ==
  /\ Cardinality({s \in Streams : roomMade[s]}) <= 1
  /\ \A s \in Streams : hpc[s] = "joined" => held[s] = rooms

\* C21 (Hub restart): when a file of the room is on disk, the SYNC_FULL_STATE
\* that answers the first JOIN_ROOM carries exactly the state that was on disk
\* when the hub started.
C21_RestartServesPersisted ==
  \A s \in Streams :
    (s = firstJoin /\ 0 \in hubDisk /\ outQ[s] # <<>>) =>
      /\ Head(outQ[s]).type = "SYNC_FULL_STATE"
      /\ Head(outQ[s]).update = {0}

\* C18 (Stream cleanup): when a stream handler's read loop exits (end of the
\* stream, a read error or a rejected handshake) its outbound queue is ended
\* and no room's streams map holds it; so no ended queue is in any room's
\* streams map.
C18_StreamCleanup ==
  /\ [](\A o \in Streams : \A q \in HubPeers :
          roomStreams[o][q] # 0 => ~outEnded[roomStreams[o][q]])
  /\ [](\A s \in Streams : hpc[s] = "closed" => outEnded[s])
  /\ [][\A s \in Streams :
          (hpc[s] # "closed" /\ hpc'[s] = "closed") =>
            /\ outEnded'[s]
            /\ \A o \in Streams : \A q \in HubPeers : roomStreams'[o][q] # s]_vars

\* A stream that had joined a room has exited and is in no streams map, while
\* another stream is still joined; and a stream was rejected at the handshake.
C18_Witness ==
  /\ \E s \in Streams :
       /\ hpc[s] = "closed"
       /\ held[s] # 0
       /\ outEnded[s]
       /\ \A o \in Streams : \A q \in HubPeers : roomStreams[o][q] # s
  /\ \E t \in Streams :
       /\ hpc[t] = "joined"
       /\ roomStreams[held[t]][remotePeer(t)] = t

\* C31 (Handshake): a stream handler holds a room only if the first message
\* it read was JOIN_ROOM with a roomId; a handler that read anything else, or
\* the end of the stream, ends its queue and leaves the rooms map, every room
\* document and every streams map as they were; and a handler that joins has
\* exactly one message on its queue, SYNC_FULL_STATE with the full state of
\* the room it holds, so that message is the first on every queue.
C31_Handshake ==
  /\ [](\A s \in Streams :
          (held[s] # 0 \/ hpc[s] \in {"loading", "joined"}) =>
            /\ ~firstMsg[s].done
            /\ firstMsg[s].type = "JOIN_ROOM"
            /\ firstMsg[s].roomId)
  /\ [](\A s \in Streams :
          outQ[s] # <<>> => Head(outQ[s]).type = "SYNC_FULL_STATE")
  /\ [][\A s \in Streams :
          (hpc[s] # "joined" /\ hpc'[s] = "joined") =>
            outQ'[s] = <<[type |-> "SYNC_FULL_STATE",
                          update |-> roomDoc'[held'[s]]]>>]_vars
  /\ [][\A s \in Streams :
          (firstMsg[s] = NoFirst /\ firstMsg'[s] # NoFirst
             /\ (firstMsg'[s].done \/ firstMsg'[s].type # "JOIN_ROOM"
                   \/ ~firstMsg'[s].roomId)) =>
            /\ hpc'[s] = "closed"
            /\ outEnded'[s]
            /\ outQ'[s] = <<>>
            /\ UNCHANGED <<rooms, roomMade, roomDoc, roomStreams, subscribed>>]_vars

\* One stream was closed for a first message that is no JOIN_ROOM, and another
\* has joined and was sent the state read from disk.
C31_Witness ==
  \E s, t \in Streams :
    /\ hpc[s] = "closed"
    /\ held[s] = 0
    /\ firstMsg[s].type = "Y_UPDATE"
    /\ hpc[t] = "joined"
    /\ Len(outQ[t]) = 1
    /\ outQ[t][1].update = {0}

\* C36 (Stream set follows the open stream): a joined stream that is the only
\* open stream of its peer is the one the streams map of its room has under
\* that peer, also when an earlier stream of the peer has exited since.
C36_StreamSetCurrent ==
  \A s \in Streams :
    (/\ hpc[s] = "joined"
     /\ \A t \in Streams \ {s} :
          remotePeer(t) = remotePeer(s) => hpc[t] # "joined")
      => roomStreams[held[s]][remotePeer(s)] = s

(***************************************************************************)
(* ==========================  PERSISTENCE  =============================  *)
(* YDocPersistence: init, load, save, bindDoc, as createYDoc uses them.    *)
(***************************************************************************)
POps == 1..MaxPOps

Origins == {"local", "network", "hub-stream"}

NoUpdate == [origin |-> "none", saved |-> <<>>]

\* The full states an event handed to save: what psaving gained.
Saved(before, after) == SubSeq(after, Len(before) + 1, Len(after))

InitPersist ==
  /\ pphase = "init"
  /\ provider \in {"opfs", "indexeddb"}
  /\ pdoc = {}
  /\ pstore \in {NoFile, {0}}
  /\ psaving = <<>>
  /\ plast = NoUpdate
  /\ pnet = FALSE

\* load(): the stored bytes, or null.
load == IF pstore = NoFile THEN {} ELSE pstore

\* A createYDoc that subscribes before it awaits persistence.
startNetworkAtOnce(ph) == TRUE

\* The phase createYDoc has reached when it subscribes to the topic, registers
\* the message handler and the update observer and arms the timers: after
\* bindDoc, in the same turn.
startNetwork(ph) == ph = "bound"

\* createYDoc up to its second await: new Y.Doc, await persistence.init(),
\* persistence.load() called.
PInit ==
  /\ pphase = "init"
  /\ pphase' = "loading"
  /\ pnet' = startNetwork("loading")
  /\ UNCHANGED <<provider, pdoc, pstore, psaving, plast>>
  /\ UNCHANGED persistFrame

\* createYDoc: data = await persistence.load(); a non-empty one is applied with
\* origin 'storage'; then persistence.bindDoc(ydoc) starts auto-saving, and the
\* rest of createYDoc runs: subscribe, handlers, timers.
PLoadAndBind ==
  /\ pphase = "loading"
  /\ pdoc' = pdoc \cup load
  /\ pphase' = "bound"
  /\ pnet' = startNetwork("bound")
  /\ plast' = IF load \subseteq pdoc THEN plast
              ELSE [origin |-> "storage", saved |-> <<>>]
  /\ UNCHANGED <<provider, pstore, psaving>>
  /\ UNCHANGED persistFrame

\* A handler that saves local updates only.
saveHandlerLocalOnly(origin, fullState) ==
  IF origin # "local"
  THEN psaving
  ELSE Append(psaving, fullState)

\* bindDoc's saveHandler(update, origin): nothing for origin 'storage';
\* otherwise fullState = Y.encodeStateAsUpdate(ydoc) now, this.save(fullState)
\* without awaiting it.
saveHandler(origin, fullState) ==
  IF origin = "storage"
  THEN psaving
  ELSE Append(psaving, fullState)

\* A transaction on the document that brings a new operation: a local mutation
\* (the application has the document once createYDoc has returned), or an
\* update the message handler or the hub stream reader applies (once the
\* network side runs).  The save handler runs if bindDoc has registered it.
PUpdate(op, origin) ==
  /\ IF origin = "local" THEN pphase = "bound" ELSE pnet
  /\ op \notin pdoc
  /\ pdoc' = pdoc \cup {op}
  /\ psaving' = IF pphase = "bound" THEN saveHandler(origin, pdoc \cup {op}) ELSE psaving
  /\ plast' = [origin |-> origin, saved |-> Saved(psaving, psaving')]
  /\ UNCHANGED <<pphase, provider, pstore, pnet>>
  /\ UNCHANGED persistFrame

\* The saves that may be the next to reach the store.  IndexedDB runs the
\* readwrite transactions of one store in the order they were created.  OPFS
\* gives every save its own writable (createWritable, write, close: three
\* awaits) and the file becomes whatever closes, in no fixed order.
Completable ==
  IF provider = "indexeddb"
  THEN {i \in DOMAIN psaving : i = 1}
  ELSE DOMAIN psaving

\* provider.save(update) completes: the store holds exactly that update.
PSaveDone(i) ==
  /\ i \in Completable
  /\ pstore' = psaving[i]
  /\ psaving' = [j \in 1..(Len(psaving) - 1) |->
                   IF j < i THEN psaving[j] ELSE psaving[j + 1]]
  /\ UNCHANGED <<pphase, provider, pdoc, plast, pnet>>
  /\ UNCHANGED persistFrame

NextPersist ==
  \/ PInit
  \/ PLoadAndBind
  \/ \E op \in POps, origin \in Origins : PUpdate(op, origin)
  \/ \E i \in 1..MaxPOps : PSaveDone(i)

(***************************************************************************)
(* Claims about persistence.                                               *)
(***************************************************************************)

\* C10 (Persistence soundness): once every save started by the update observer
\* has completed, load() returns the full state of the live document, also when
\* saves overlapped.
C10_PersistenceSound ==
  (pphase = "bound" /\ psaving = <<>>) => load = pdoc

MAX_ATTEMPTS == 8

MAX_BACKOFF_MS == 8000

BASE_MS == 250

InitOutbox ==
  /\ entry = FALSE
  /\ queue = <<>>
  /\ attempts = 0
  /\ timer = FALSE
  /\ delay = 0
  /\ flights = {}
  /\ subs = FALSE
  /\ stable = FALSE
  /\ sent = <<>>
  /\ enqueued = {}
  /\ pubNext = 0

Min(a, b) == IF a < b THEN a ELSE b

\* A backoff without its cap.
flushDelayUncapped(a) == BASE_MS * 2^a

\* Math.min(BASE_MS * Math.pow(2, entry.attempts || 0), MAX_BACKOFF_MS)
flushDelay(a) == Min(BASE_MS * 2^a, MAX_BACKOFF_MS)

\* scheduleFlush(topic) for an existing entry whose attempts are a: nothing if
\* the timer is set, else the timer is armed with the delay of a.
scheduleFlush(armed, a) ==
  /\ timer' = TRUE
  /\ delay' = IF armed THEN delay ELSE flushDelay(a)

\* The outcomes a call of pubsub.publish(topic, enc(msg)) can have now: it
\* rejects when the topic has no subscribers, it may fail otherwise too, and it
\* succeeds once the topic is stable.
PublishOutcomes ==
  IF ~subs THEN {FALSE} ELSE IF stable THEN {TRUE} ELSE BOOLEAN

\* The transport's log after a call of pubsub.publish for m with outcome ok.
Transport(m, ok) == IF ok THEN Append(sent, m) ELSE sent

\* A flush that drops the message whose publish failed.
putBackDropped(q, m) == q

\* catch { entry.queue.unshift(msg) }: the message goes back to the head.
putBack(q, m) == <<m>> \o q

\* The environment: subscribers come and go until the topic is stable.
SubsChange ==
  /\ ~stable
  /\ subs' = ~subs
  /\ UNCHANGED <<entry, queue, attempts, timer, delay, flights, stable, sent, enqueued, pubNext>>
  /\ UNCHANGED outboxFrame

Stabilize ==
  /\ ~stable
  /\ stable' = TRUE
  /\ subs' = TRUE
  /\ UNCHANGED <<entry, queue, attempts, timer, delay, flights, sent, enqueued, pubNext>>
  /\ UNCHANGED outboxFrame

\* publish(roomId, msg): without subscribers the message is queued (the entry is
\* made on first use) and scheduleFlush arms the timer unless one is armed;
\* with subscribers it goes to pubsub.publish at once, past the queue.
publish ==
  /\ pubNext < MaxMsgs
  /\ pubNext' = pubNext + 1
  /\ LET m == pubNext + 1 IN
       IF ~subs
       THEN /\ entry' = TRUE
            /\ queue' = Append(queue, m)
            /\ scheduleFlush(timer, attempts)
            /\ enqueued' = enqueued \cup {m}
            /\ UNCHANGED sent
       ELSE /\ \E ok \in PublishOutcomes : sent' = Transport(m, ok)
            /\ UNCHANGED <<entry, queue, timer, delay, enqueued>>
  /\ UNCHANGED <<attempts, flights, subs, stable>>
  /\ UNCHANGED outboxFrame

\* libp2p 'peer:connect': scheduleFlush(topic) for every topic of the outbox.
PeerConnect ==
  /\ entry
  /\ ~timer
  /\ scheduleFlush(timer, attempts)
  /\ UNCHANGED <<entry, queue, attempts, flights, subs, stable, sent, enqueued, pubNext>>
  /\ UNCHANGED outboxFrame

\* The flush loop at its head, with queue q: take the next message and call
\* pubsub.publish (suspending in the await), or leave the loop with q empty:
\* attempts = 0.
flushLoop(q, others) ==
  IF q = <<>>
  THEN /\ queue' = q
       /\ attempts' = 0
       /\ flights' = others
       /\ UNCHANGED sent
  ELSE /\ queue' = Tail(q)
       /\ \E ok \in PublishOutcomes :
            /\ sent' = Transport(Head(q), ok)
            /\ flights' = others \cup {[msg |-> Head(q), ok |-> ok]}
       /\ UNCHANGED attempts

\* The flush timer fires: entry.timer = null; without subscribers
\* attempts = min(attempts + 1, 8) and the timer is armed again; otherwise the
\* flush loop starts.
TimerFire ==
  /\ timer
  /\ IF ~subs
     THEN /\ attempts' = Min(attempts + 1, MAX_ATTEMPTS)
          /\ scheduleFlush(FALSE, attempts')
          /\ UNCHANGED <<queue, flights, sent>>
     ELSE /\ flushLoop(queue, flights)
          /\ timer' = FALSE
          /\ UNCHANGED delay
  /\ UNCHANGED <<entry, subs, stable, enqueued, pubNext>>
  /\ UNCHANGED outboxFrame

\* The publish a flush awaits settles.  Resolved: the loop goes on.  Rejected:
\* the message is put back at the head, attempts = min(attempts + 1, 8), break,
\* and, the queue being non-empty, scheduleFlush.
PublishSettles ==
  /\ \E f \in flights :
       IF f.ok
       THEN /\ flushLoop(queue, flights \ {f})
            /\ UNCHANGED <<timer, delay>>
       ELSE /\ queue' = putBack(queue, f.msg)
            /\ attempts' = Min(attempts + 1, MAX_ATTEMPTS)
            /\ flights' = flights \ {f}
            /\ scheduleFlush(timer, attempts')
            /\ UNCHANGED sent
  /\ UNCHANGED <<entry, subs, stable, enqueued, pubNext>>
  /\ UNCHANGED outboxFrame

NextOutbox ==
  \/ SubsChange
  \/ Stabilize
  \/ publish
  \/ PeerConnect
  \/ TimerFire
  \/ PublishSettles

(***************************************************************************)
(* Claims about the outbox.                                                *)
(***************************************************************************)

Count(seq, m) == Cardinality({i \in DOMAIN seq : seq[i] = m})

\* C7 (Program order): the transport gets the messages in the order publish()
\* was called: no message is accepted by pubsub.publish after a later one.
C7_ProgramOrder ==
  \A i, j \in DOMAIN sent : i < j => sent[i] < sent[j]

\* C17 (Backoff bounds): attempts stays in 0..8; it changes only to
\* min(attempts + 1, 8) or, when the queue has drained, to 0; a flush that
\* finds no subscribers raises it so and arms the timer again; and the delay a
\* timer is armed with is min(250 * 2^attempts, 8000), never above 8000.
C17_BackoffBounded ==
  /\ [](attempts \in 0..MAX_ATTEMPTS /\ delay <= MAX_BACKOFF_MS)
  /\ [][(attempts' # attempts) =>
              ((attempts' = Min(attempts + 1, MAX_ATTEMPTS))
                 \/ (attempts' = 0 /\ queue' = <<>>))]_vars
  /\ [][(timer /\ ~subs /\ attempts' # attempts /\ flights' = flights) => timer']_vars
  /\ [][(delay' # delay) =>
              (delay' = Min(BASE_MS * 2^attempts', MAX_BACKOFF_MS))]_vars

\* Flushes without subscribers have driven attempts to 8 and the timer is armed
\* with the longest delay.
C17_Witness ==
  /\ attempts = MAX_ATTEMPTS
  /\ timer
  /\ delay = MAX_BACKOFF_MS
  /\ queue # <<>>

\* Where the outbox holds m: in the queue, or with a flush whose publish of m
\* is failing and will put it back.
Held(m) ==
  Count(queue, m) + Cardinality({f \in flights : f.msg = m /\ ~f.ok})

Drained ==
  /\ queue = <<>>
  /\ flights = {}
  /\ \A m \in enqueued : Count(sent, m) = 1

\* C8 (Outbox neither loses nor duplicates): a message publish() queued for
\* want of subscribers is held by the outbox until pubsub.publish accepts it,
\* and is accepted exactly once: at every moment it is either held once and
\* not yet sent, or sent once and no longer held; and once the topic keeps its
\* subscribers and publishes succeed, the queue drains with every queued
\* message sent.
C8_OutboxDelivers ==
  /\ [](\A m \in enqueued : Held(m) + Count(sent, m) = 1)
  /\ (stable ~> Drained)

\* Every message was queued for want of subscribers, the topic became stable,
\* and the queue has drained with each of them sent once.
C8_Witness ==
  /\ Cardinality(enqueued) = MaxMsgs
  /\ Drained
  /\ attempts = 0
  /\ stable

\* C33 (One flush at a time): at most one flush of the queue is suspended in
\* 'await publish' at any time.
C33_SingleFlush == Cardinality(flights) <= 1

\* C34 (No timer without work): the flush timer is pending only while a
\* message is queued or a flush has one in hand.
C34_TimerOnlyWhileQueued == timer => (queue # <<>> \/ flights # {})

(***************************************************************************)
(* ==========================  SEEN-SET  ================================  *)
(* src/room.js: the pubsub 'message' handler of one topic with             *)
(* rememberSeen / isSeen.  msgIds are numbered in the order of their first *)
(* arrival; the ids in Watched may arrive again.                           *)
(***************************************************************************)
SEEN_LIMIT == 400

MaxFresh == SEEN_LIMIT + MaxOver

\* The msgIds whose fate is followed: the first to arrive.
Watched == {1}

NoMsgId == 0

NoForward == [msgId |-> NoMsgId, ttl |-> -1]

\* The ttl publish() gives a message: 1 for HELLO, MANIFEST and CHAT, else 0.
TTLs == {0, 1}

Range(seq) == {seq[i] : i \in DOMAIN seq}

InitSeen ==
  /\ seenMsg = <<>>
  /\ fns = 0
  /\ fresh = 0
  /\ replays = 0
  /\ dispatched = [t \in Watched |-> 0]
  /\ dropped = [t \in Watched |-> 0]
  /\ evictions = [t \in Watched |-> 0]
  /\ forwarded = [t \in Watched |-> 0]
  /\ lastMsg = [msgId |-> NoMsgId, ttl |-> 0, seen |-> FALSE]
  /\ lastFwd = NoForward

\* A handler that takes every message for new.
isSeenNever(s, id) == FALSE

\* isSeen(topic, id)
isSeen(s, id) == id \in Range(s)

\* A seen-set that is never trimmed.
rememberSeenAll(s, id) == IF id \in Range(s) THEN s ELSE Append(s, id)

\* rememberSeen(topic, id): s.add(id), and once s.size > SEEN_LIMIT the first
\* floor(SEEN_LIMIT / 4) ids in insertion order are deleted.
rememberSeen(s, id) ==
  LET added == IF id \in Range(s) THEN s ELSE Append(s, id)
      drop == SEEN_LIMIT \div 4
  IN  IF Len(added) > SEEN_LIMIT
      THEN SubSeq(added, drop + 1, Len(added))
      ELSE added

\* subscribe(roomId, onMessage): the listener is registered with the first
\* callback.
subscribe ==
  /\ fns = 0
  /\ fns' = 1
  /\ UNCHANGED <<seenMsg, fresh, replays, dispatched, dropped, evictions, forwarded,
                 lastMsg, lastFwd>>
  /\ UNCHANGED seenFrame

\* unsubscribe(roomId, fn): with the last callback the listener is removed;
\* seenMsg is kept.
unsubscribe ==
  /\ fns > 0
  /\ fns' = fns - 1
  /\ UNCHANGED <<seenMsg, fresh, replays, dispatched, dropped, evictions, forwarded,
                 lastMsg, lastFwd>>
  /\ UNCHANGED seenFrame

\* A handler that forwards every new message as it came.
forwardCopyAlways(m) == [msgId |-> m.msgId, ttl |-> m.ttl]

\* if ((m.ttl ?? 0) > 0) { fwd = { ...m, ttl: (m.ttl ?? 0) - 1 }; setTimeout(() =>
\* publish(roomId, fwd), jitter) }: the copy to publish, or NoForward.
forwardCopy(m) ==
  IF m.ttl > 0 THEN [msgId |-> m.msgId, ttl |-> m.ttl - 1] ELSE NoForward

\* The 'message' handler for a message m = [msgId, ttl].
handler(m) ==
  IF fns = 0
  THEN UNCHANGED <<seenMsg, dispatched, dropped, evictions, forwarded, lastMsg, lastFwd>>
  ELSE IF m.msgId = NoMsgId
  THEN /\ lastMsg' = [msgId |-> m.msgId, ttl |-> m.ttl, seen |-> FALSE]
       /\ lastFwd' = NoForward
       /\ UNCHANGED <<seenMsg, dispatched, dropped, evictions, forwarded>>
  ELSE IF isSeen(seenMsg, m.msgId)
  THEN /\ dropped' = [t \in Watched |->
                        IF t = m.msgId THEN dropped[t] + 1 ELSE dropped[t]]
       /\ lastMsg' = [msgId |-> m.msgId, ttl |-> m.ttl, seen |-> TRUE]
       /\ lastFwd' = NoForward
       /\ UNCHANGED <<seenMsg, dispatched, evictions, forwarded>>
  ELSE /\ seenMsg' = rememberSeen(seenMsg, m.msgId)
       /\ evictions' = [t \in Watched |->
                          IF t \in Range(seenMsg) /\ t \notin Range(seenMsg')
                          THEN evictions[t] + 1 ELSE evictions[t]]
       /\ lastMsg' = [msgId |-> m.msgId, ttl |-> m.ttl, seen |-> FALSE]
       /\ lastFwd' = forwardCopy(m)
       /\ forwarded' = [t \in Watched |->
                          IF t = m.msgId /\ forwardCopy(m) # NoForward
                          THEN forwarded[t] + 1 ELSE forwarded[t]]
       /\ dispatched' = [t \in Watched |->
                           IF t = m.msgId THEN dispatched[t] + 1 ELSE dispatched[t]]
       /\ UNCHANGED dropped

\* A message with a msgId not seen before arrives.
ArriveFresh ==
  /\ fns > 0
  /\ fresh < MaxFresh
  /\ fresh' = fresh + 1
  /\ \E ttl \in TTLs : handler([msgId |-> fresh + 1, ttl |-> ttl])
  /\ UNCHANGED <<fns, replays>>
  /\ UNCHANGED seenFrame

\* A watched message that has arrived before arrives again (a forwarded copy,
\* a second path), or a message without a msgId arrives.
ArriveAgain ==
  /\ fns > 0
  /\ replays < MaxReplays
  /\ replays' = replays + 1
  /\ \E id \in {t \in Watched : t <= fresh} \cup {NoMsgId}, ttl \in TTLs :
       handler([msgId |-> id, ttl |-> ttl])
  /\ UNCHANGED <<fns, fresh>>
  /\ UNCHANGED seenFrame

NextSeen ==
  \/ subscribe
  \/ unsubscribe
  \/ ArriveFresh
  \/ ArriveAgain

(***************************************************************************)
(* Claims about the seen-set.                                              *)
(***************************************************************************)

\* C5 (Dedup correctness), as stated: a message with a given msgId is
\* dispatched by a peer at most once, however often it arrives.
C5_AtMostOnce ==
  \A t \in Watched : dispatched[t] <= 1

\* C5 (Dedup correctness), amended: a msgId is dispatched at most once for
\* each time it stays in the seen-set, so at most once until it has been
\* evicted, which takes more than SEEN_LIMIT distinct msgIds on the topic; an
\* arrival whose msgId is in the seen-set is never dispatched.
C5_AtMostOnceWhileSeen ==
  /\ \A t \in Watched : dispatched[t] <= evictions[t] + 1
  /\ fresh <= SEEN_LIMIT => \A t \in Watched : dispatched[t] <= 1
  /\ \A t \in Watched : (t \in Range(seenMsg)) => dispatched[t] >= 1

\* C16 (Seen-set cap): the seen-set never holds more than SEEN_LIMIT msgIds;
\* an insertion into a set of SEEN_LIMIT drops the oldest quarter, in insertion
\* order, and keeps the id just inserted, and any other insertion only appends.
C16_SeenSetCapped ==
  /\ [](Len(seenMsg) <= SEEN_LIMIT)
  /\ [][seenMsg' # seenMsg =>
          seenMsg' = IF Len(seenMsg) = SEEN_LIMIT
                     THEN Append(SubSeq(seenMsg, (SEEN_LIMIT \div 4) + 1, SEEN_LIMIT),
                                 lastMsg'.msgId)
                     ELSE Append(seenMsg, lastMsg'.msgId)]_vars

\* The 401st msgId has just been inserted: the first 100 are gone and the set
\* runs from the 101st to the 401st.
C16_Witness ==
  /\ fresh = SEEN_LIMIT + 1
  /\ Len(seenMsg) = SEEN_LIMIT - (SEEN_LIMIT \div 4) + 1
  /\ Head(seenMsg) = (SEEN_LIMIT \div 4) + 1
  /\ seenMsg[Len(seenMsg)] = SEEN_LIMIT + 1

\* C15 (Forwarding), as stated: a message is forwarded only if its ttl > 0 and
\* its msgId was not seen, the copy has the same msgId and the ttl less one, and
\* a msgId is forwarded at most once.
C15_ForwardedOnce ==
  /\ lastFwd # NoForward =>
       /\ lastMsg.ttl > 0
       /\ ~lastMsg.seen
       /\ lastFwd = [msgId |-> lastMsg.msgId, ttl |-> lastMsg.ttl - 1]
  /\ \A t \in Watched : forwarded[t] <= 1

\* C15 (Forwarding), amended: as stated, but a msgId is forwarded at most once
\* for each time it stays in the seen-set: once evicted, a copy that arrives
\* with ttl > 0 is forwarded again.
C15_ForwardedOncePerStay ==
  /\ lastFwd # NoForward =>
       /\ lastMsg.ttl > 0
       /\ ~lastMsg.seen
       /\ lastFwd = [msgId |-> lastMsg.msgId, ttl |-> lastMsg.ttl - 1]
  /\ \A t \in Watched : forwarded[t] <= evictions[t] + 1

\* A watched message was forwarded once, and a copy that arrived later with
\* ttl > 0 was not forwarded.
C15_Witness ==
  \E t \in Watched :
    /\ forwarded[t] = 1
    /\ lastMsg = [msgId |-> t, ttl |-> 1, seen |-> TRUE]
    /\ lastFwd = NoForward
    /\ dropped[t] >= 1

\* A watched msgId arrived, was dispatched once, arrived again while in the
\* seen-set and was suppressed.
C5_Witness ==
  \E t \in Watched :
    /\ dispatched[t] = 1
    /\ dropped[t] >= 1
    /\ evictions[t] = 0
    /\ t \in Range(seenMsg)

(***************************************************************************)
(* ============================  JOIN  ==================================  *)
(* The room manager's join(roomId, options) for one room, and the events   *)
(* of the manifest map.  An observer is the closure a join call made for   *)
(* one of its callbacks; an onNewFiles observer keeps prevFiles.  The      *)
(* callbacks are async functions: they never throw into the observer.      *)
(***************************************************************************)
Callbacks == {"onManifestUpdate", "onNewFiles"}

NoChange == [kind |-> "none", invoked |-> [cb \in Callbacks |-> 0], cbs |-> {}, call |-> 0]

InitJoin ==
  /\ ydocs = "none"
  /\ pending = <<>>
  /\ joinCalls = 0
  /\ joinedRooms = FALSE
  /\ observers = {}
  /\ observerCleanups = {}
  /\ handlers = 0
  /\ files = 0
  /\ lastJoin = [call |-> 0, cbs |-> {}, manifest |-> FALSE, first |-> FALSE,
                 wrote |-> FALSE]
  /\ lastChange = NoChange

\* The earlier revision of join: old observers are left registered.
keepObservers(obs, cleanups) == obs

\* cleanups.forEach(fn => fn()): every recorded unobserve runs.
runCleanups(obs, cleanups) == obs \ cleanups

\* The observers a join call n makes for its callbacks cbs with the manifest
\* holding f files.
newObservers(n, cbs, f) ==
  {[cb |-> cb, call |-> n, prevFiles |-> IF cb = "onNewFiles" THEN f ELSE 0] : cb \in cbs}

\* A join that sets the manifest it is given on every call.
setsManifestAlways(given, alreadyJoined) == given

\* if (manifest && !alreadyJoined) updateManifest(ydoc.manifest, manifest)
setsManifest(given, alreadyJoined) == given /\ ~alreadyJoined

\* join(roomId, options) up to 'await getYDoc(roomId)': the first call makes
\* the document promise.
JoinCall ==
  /\ joinCalls < MaxJoins
  /\ joinCalls' = joinCalls + 1
  /\ ydocs' = IF ydocs = "none" THEN "promise" ELSE ydocs
  /\ \E cbs \in SUBSET Callbacks, manifest \in BOOLEAN :
       pending' = Append(pending, [call |-> joinCalls + 1, cbs |-> cbs, manifest |-> manifest])
  /\ UNCHANGED <<joinedRooms, observers, observerCleanups, handlers, files, lastJoin, lastChange>>
  /\ UNCHANGED joinFrame

\* createYDoc resolves.
DocReady ==
  /\ ydocs = "promise"
  /\ ydocs' = "doc"
  /\ UNCHANGED <<pending, joinCalls, joinedRooms, observers, observerCleanups, handlers,
                 files, lastJoin, lastChange>>
  /\ UNCHANGED joinFrame

\* The body of join after the await, for the oldest suspended call.
JoinResume ==
  /\ ydocs = "doc"
  /\ pending # <<>>
  /\ LET c == Head(pending)
         cleaned == runCleanups(observers, observerCleanups)
         alreadyJoined == joinedRooms
         f == IF setsManifest(c.manifest, alreadyJoined) THEN 1 ELSE files
         made == newObservers(c.call, c.cbs, f)
     IN  /\ pending' = Tail(pending)
         /\ joinedRooms' = TRUE
         /\ files' = f
         /\ observers' = cleaned \cup made
         /\ observerCleanups' = made
         /\ handlers' = IF alreadyJoined THEN handlers ELSE handlers + 1
         /\ lastJoin' = [call |-> c.call, cbs |-> c.cbs, manifest |-> c.manifest,
                          first |-> ~alreadyJoined,
                          wrote |-> setsManifest(c.manifest, alreadyJoined)]
  /\ UNCHANGED <<ydocs, joinCalls, lastChange>>
  /\ UNCHANGED joinFrame

\* One event of the manifest map: a file is added (add = TRUE) or only
\* updatedAt changes.  Every registered observer runs once; an onNewFiles
\* observer calls its callback when it finds files beyond its prevFiles.
ManifestEvent(add) ==
  /\ ydocs = "doc"
  /\ add => files < MaxFiles
  /\ files' = IF add THEN files + 1 ELSE files
  /\ lastChange' =
       [kind |-> IF add THEN "add" ELSE "touch",
        invoked |-> [cb \in Callbacks |->
           Cardinality({o \in observers :
              /\ o.cb = cb
              /\ cb = "onNewFiles" => files' > o.prevFiles})],
        cbs |-> lastJoin.cbs,
        call |-> lastJoin.call]
  /\ observers' =
       {IF o.cb = "onNewFiles" THEN [o EXCEPT !.prevFiles = files'] ELSE o : o \in observers}
  /\ observerCleanups' =
       {IF o.cb = "onNewFiles" THEN [o EXCEPT !.prevFiles = files'] ELSE o : o \in observerCleanups}
  /\ UNCHANGED <<ydocs, pending, joinCalls, joinedRooms, handlers, lastJoin>>
  /\ UNCHANGED joinFrame

NextJoin ==
  \/ JoinCall
  \/ DocReady
  \/ JoinResume
  \/ \E add \in BOOLEAN : ManifestEvent(add)

(***************************************************************************)
(* Claims about join.                                                      *)
(***************************************************************************)

C24_JoinKeepsState ==
  /\ [](lastJoin.wrote => lastJoin.first /\ lastJoin.manifest)
  /\ [][(joinedRooms /\ lastJoin'.call # lastJoin.call) => files' = files]_vars

\* A later join that carried a manifest ran on a room holding two files and
\* wrote nothing.
C24_Witness ==
  /\ lastJoin.call > 1
  /\ lastJoin.manifest
  /\ ~lastJoin.first
  /\ ~lastJoin.wrote
  /\ files = MaxFiles

PinRooms == {"r1", "r2"}

\* A cid CID.parse rejects.
BadCid == 0

Cids == {1, 2}

\* The lists room.manifest.get('files') holds here: empty, one cid, two cids,
\* a cid listed twice, a bad cid alone and before a good one.
Manifests ==
  {<<>>, <<1>>, <<2>>, <<1, 2>>, <<1, 1>>, <<BadCid>>, <<BadCid, 1>>}

NoFire == [room |-> "none", files |-> <<>>, before |-> {}, tried |-> <<>>]

InitPin ==
  /\ pinningSetup = [r \in PinRooms |-> FALSE]
  /\ roomManifest = [r \in PinRooms |-> <<>>]
  /\ pinnedCids = {}
  /\ pinning = [c \in Cids |-> 0]
  /\ pins = {}
  /\ launched = [c \in Cids \cup {BadCid} |-> 0]
  /\ failed = [c \in Cids \cup {BadCid} |-> 0]
  /\ lastFire = NoFire

\* An observer that takes no cid for pinned.
hasNever(pinned, cid) == FALSE

\* pinnedCids.has(file.cid)
has(pinned, cid) == cid \in pinned

\* A catch block that leaves pinnedCids as it is.
pinFailedKept(pinned, cid) == pinned

\* catch: pinnedCids.delete(file.cid)
pinFailed(pinned, cid) == pinned \ {cid}

\* manifestObserver's loop over files, from the set pinned: for a cid not in
\* the set, add it and start the pin; CID.parse throws for a bad cid before the
\* first await, so its catch block runs within the loop.  Gives the set and
\* the cids a pin was tried for, in order.
RECURSIVE manifestObserver(_, _)
manifestObserver(fs, acc) ==
  IF fs = <<>> THEN acc
  ELSE LET cid == Head(fs) IN
       manifestObserver(Tail(fs),
         IF has(acc.pinned, cid)
         THEN acc
         ELSE [pinned |-> IF cid = BadCid
                          THEN pinFailed(acc.pinned \cup {cid}, cid)
                          ELSE acc.pinned \cup {cid},
               tried |-> Append(acc.tried, cid)])

\* One run of room object r's manifestObserver over the list fs.
fire(r, fs) ==
  LET run == manifestObserver(fs, [pinned |-> pinnedCids, tried |-> <<>>]) IN
  /\ \A c \in Cids \cup {BadCid} : launched[c] + Count(run.tried, c) <= MaxPins
  /\ pinnedCids' = run.pinned
  /\ pinning' = [c \in Cids |-> pinning[c] + Count(run.tried, c)]
  /\ launched' = [c \in Cids \cup {BadCid} |-> launched[c] + Count(run.tried, c)]
  /\ failed' = [failed EXCEPT ![BadCid] = @ + Count(run.tried, BadCid)]
  /\ lastFire' = [room |-> r, files |-> fs, before |-> pinnedCids,
                  tried |-> run.tried]

\* The patched getOrCreateRoom returns room object r for the first time: the
\* room holds whatever manifest its saved state had; _pinningSetup is set, the
\* observer is attached and run once.
PinRoomOpen(r) ==
  /\ ~pinningSetup[r]
  /\ \E fs \in Manifests :
       /\ roomManifest' = [roomManifest EXCEPT ![r] = fs]
       /\ fire(r, fs)
  /\ pinningSetup' = [pinningSetup EXCEPT ![r] = TRUE]
  /\ UNCHANGED pins
  /\ UNCHANGED pinFrame

\* An update changes the manifest of room object r (to a list that may be the
\* same, longer or shorter): the observer runs.
ManifestUpdate(r) ==
  /\ pinningSetup[r]
  /\ \E fs \in Manifests :
       /\ roomManifest' = [roomManifest EXCEPT ![r] = fs]
       /\ fire(r, fs)
  /\ UNCHANGED <<pinningSetup, pins>>
  /\ UNCHANGED pinFrame

\* The iteration over helia.pins.add(cidObj) completes: the cid is pinned.
PinDone(c) ==
  /\ pinning[c] > 0
  /\ pinning' = [pinning EXCEPT ![c] = @ - 1]
  /\ pins' = pins \cup {c}
  /\ UNCHANGED <<pinningSetup, roomManifest, pinnedCids, launched, failed, lastFire>>
  /\ UNCHANGED pinFrame

\* helia.pins.add throws: the catch block deletes the cid from pinnedCids.
PinThrows(c) ==
  /\ pinning[c] > 0
  /\ pinning' = [pinning EXCEPT ![c] = @ - 1]
  /\ pinnedCids' = pinFailed(pinnedCids, c)
  /\ failed' = [failed EXCEPT ![c] = @ + 1]
  /\ UNCHANGED <<pinningSetup, roomManifest, pins, launched, lastFire>>
  /\ UNCHANGED pinFrame

NextPin ==
  \/ \E r \in PinRooms : PinRoomOpen(r)
  \/ \E r \in PinRooms : ManifestUpdate(r)
  \/ \E c \in Cids : PinDone(c)
  \/ \E c \in Cids : PinThrows(c)

(***************************************************************************)
(* Claims about proactive pinning.                                         *)
(***************************************************************************)

\* C19 (Pinning is exactly-once and monotone): an observer run starts exactly
\* one pin for a listed cid that no pin is in progress or done for, and none
\* for a cid whose pin is in progress or has succeeded, in whichever room; so
\* a cid never has more than one pin that has not failed.  A manifest update
\* that drops a cid neither takes it out of pinnedCids nor unpins it: only a
\* failed pin takes a cid out, and no pin is ever removed.
C19_PinnedOnce ==
  /\ [](\A c \in Cids :
          /\ pinning[c] <= 1
          /\ (c \in pinnedCids) = (pinning[c] = 1 \/ c \in pins)
          /\ launched[c] - failed[c] = IF c \in pinnedCids THEN 1 ELSE 0)
  /\ [](\A c \in Cids :
          c \in Range(lastFire.files) =>
            Count(lastFire.tried, c) = IF c \in lastFire.before THEN 0 ELSE 1)
  /\ [][\A c \in Cids :
          /\ (c \in pinnedCids /\ c \notin pinnedCids') => failed'[c] > failed[c]
          /\ c \in pins => c \in pins']_vars

\* Room r1 listed cid 1 and its pin succeeded; r1's manifest then dropped it;
\* a run of r2's observer over a list with cid 1 started nothing, and cid 1 was
\* pinned once.
C19_Witness ==
  /\ lastFire.room = "r2"
  /\ 1 \in Range(lastFire.files)
  /\ 1 \in lastFire.before
  /\ lastFire.tried = <<>>
  /\ 1 \in pins
  /\ 1 \in pinnedCids
  /\ launched[1] = 1
  /\ pinningSetup["r1"]
  /\ roomManifest["r1"] = <<>>

\* C20 (Retry after a failed pin): a pin attempt that fails takes its cid out
\* of pinnedCids, and the next observer run whose manifest lists that cid
\* starts a new attempt for it.
C20_RetryAfterFailure ==
  /\ [][\A c \in Cids \cup {BadCid} :
          failed'[c] > failed[c] => c \notin pinnedCids']_vars
  /\ [](\A c \in Cids \cup {BadCid} : failed[c] = launched[c] => c \notin pinnedCids)
  /\ [][\A c \in Cids \cup {BadCid} :
          (/\ failed[c] > 0
           /\ c \notin pinnedCids
           /\ lastFire'.room # "none"
           /\ <<lastFire', launched'>> # <<lastFire, launched>>
           /\ c \in Range(lastFire'.files))
          => launched'[c] > launched[c]]_vars

\* The first pin of cid 1 failed; the next observer run listing it started a
\* second one, now in progress.
C20_Witness ==
  /\ failed[1] = 1
  /\ launched[1] = 2
  /\ 1 \in pinnedCids
  /\ pinning[1] = 1
  /\ 1 \in Range(lastFire.tried)
  /\ 1 \notin lastFire.before

(***************************************************************************)
(* ======================  LIFE OF A ROOM DOCUMENT  =====================  *)
(* createYDoc: the two start-up timers, the retry interval with the mesh   *)
(* timeout of requestSnapshot, and destroy().                              *)
(***************************************************************************)
MESH_TIMEOUT_MS == 10000

RETRY_MS == 2000

\* The readings of Date.now() - syncStartTime a timer callback can make.
Times == {RETRY_MS * k : k \in 0..MaxTicks}

\* getSubscribers(topic).length and getPeers().length at a callback.
PeerCounts == {<<0, 0>>, <<0, 1>>, <<1, 1>>}

NoTick == [kind |-> "none", state |-> "loading", peers |-> 0, allPeers |-> 0,
           waitingTime |-> 0, published |-> FALSE]

\* What can be wrong with an inbound message: dec throws; the type is none
\* the receiver knows; a Y_UPDATE, SNAPSHOT or SYNC_FULL_STATE has no update.
Faults == {"undecodable", "unknown type", "no update"}

NoEvt == [kind |-> "none"]

InitLife ==
  /\ life = "none"
  /\ lifeState = "loading"
  /\ snapshotTimer = FALSE
  /\ connectTimer = FALSE
  /\ syncInterval = FALSE
  /\ dialing = FALSE
  /\ hubOutgoing = FALSE
  /\ ticks = 0
  /\ now = 0
  /\ lastTick = NoTick
  /\ lastEvent = NoEvt
  /\ observing = FALSE
  /\ bound = FALSE
  /\ afterDestroy = {}

\* A requestSnapshot that waits for subscribers without a timeout.
publishesOnlyWithMesh(peers, allPeers, waitingTime) ==
  ~(peers = 0 /\ allPeers > 0)

\* requestSnapshot: TRUE when it goes on to publish, FALSE when it returns early
\* (no subscriber, peers connected, mesh timeout not reached).
publishes(peers, allPeers, waitingTime) ==
  ~(peers = 0 /\ allPeers > 0 /\ waitingTime < MESH_TIMEOUT_MS)

\* What the document does once destroy() has run is recorded.
Did(what) == IF life = "destroyed" THEN afterDestroy \cup {what} ELSE afterDestroy

\* A timer callback runs requestSnapshot at reading t of the clock.
runRequest(kind, t) ==
  \E pc \in PeerCounts :
    LET go == publishes(pc[1], pc[2], t) IN
    /\ lifeState' = IF go THEN "syncing" ELSE lifeState
    /\ afterDestroy' = IF go THEN Did("request") ELSE afterDestroy
    /\ lastTick' = [kind |-> kind, state |-> lifeState, peers |-> pc[1],
                    allPeers |-> pc[2], waitingTime |-> t, published |-> go]

\* createYDoc returns: both timers and the interval are set, updateHandler and
\* the persistence handler are registered (persistence has initialised).
LifeCreate ==
  /\ life = "none"
  /\ life' = "live"
  /\ snapshotTimer' = TRUE
  /\ connectTimer' = TRUE
  /\ syncInterval' = TRUE
  /\ observing' = TRUE
  /\ bound' = TRUE
  /\ UNCHANGED <<lifeState, dialing, hubOutgoing, ticks, now, lastTick, lastEvent, afterDestroy>>
  /\ UNCHANGED lifeFrame

\* setTimeout(() => connectToHub(), 1000) fires: with no peer connected it
\* returns, else it dials the first peer and awaits.
LifeConnectFires ==
  /\ connectTimer
  /\ connectTimer' = FALSE
  /\ \E peers \in BOOLEAN :
       /\ dialing' = peers
       /\ afterDestroy' = IF peers THEN Did("dial") ELSE afterDestroy
  /\ UNCHANGED <<life, lifeState, snapshotTimer, syncInterval, hubOutgoing, ticks,
                 now, lastTick, observing, bound, lastEvent>>
  /\ UNCHANGED lifeFrame

\* dialProtocol settles: on success hubOutgoing is set, JOIN_ROOM is pushed and
\* the reader starts; on failure connectToHub returns false.
LifeDialSettles ==
  /\ dialing
  /\ dialing' = FALSE
  /\ \E ok \in BOOLEAN :
       /\ hubOutgoing' = ok
       /\ afterDestroy' = IF ok THEN Did("stream") ELSE afterDestroy
  /\ UNCHANGED <<life, lifeState, snapshotTimer, connectTimer, syncInterval, ticks,
                 now, lastTick, observing, bound, lastEvent>>
  /\ UNCHANGED lifeFrame

\* setTimeout(requestSnapshot, 2000) fires.
LifeSnapshotFires ==
  /\ snapshotTimer
  /\ snapshotTimer' = FALSE
  /\ \E t \in Times :
       /\ t >= now /\ t >= RETRY_MS
       /\ now' = t
       /\ runRequest("initial", t)
  /\ UNCHANGED <<life, connectTimer, syncInterval, dialing, hubOutgoing, ticks,
                 observing, bound, lastEvent>>
  /\ UNCHANGED lifeFrame

\* The retry interval fires, no earlier than its period afterDestroy the previous
\* firing: if (syncState !== 'synced') requestSnapshot().
LifeTick ==
  /\ syncInterval
  /\ ticks < MaxTicks
  /\ ticks' = ticks + 1
  /\ \E t \in Times :
       /\ t >= now /\ t >= RETRY_MS * (ticks + 1)
       /\ now' = t
       /\ IF lifeState # "synced"
          THEN runRequest("tick", t)
          ELSE /\ lastTick' = [kind |-> "tick", state |-> lifeState, peers |-> 0,
                               allPeers |-> 0, waitingTime |-> t, published |-> FALSE]
               /\ UNCHANGED <<lifeState, afterDestroy>>
  /\ UNCHANGED <<life, snapshotTimer, connectTimer, syncInterval, dialing, hubOutgoing,
                 observing, bound, lastEvent>>
  /\ UNCHANGED lifeFrame

\* A Y_UPDATE or SNAPSHOT reaches messageHandler, or a message of the hub
\* reaches the stream reader: syncState = 'synced'.
LifeSynced ==
  /\ life = "live" \/ hubOutgoing
  /\ lifeState # "synced"
  /\ lifeState' = "synced"
  /\ UNCHANGED <<life, snapshotTimer, connectTimer, syncInterval, dialing,
                 hubOutgoing, observing, bound, ticks, now, lastTick, lastEvent, afterDestroy>>
  /\ UNCHANGED lifeFrame

\* A local change of the document: updateHandler broadcasts it if registered,
\* the persistence handler saves it if registered.
LifeUpdate ==
  /\ life # "none"
  /\ lastEvent' = [kind |-> "update", at |-> life, broadcast |-> observing,
                    saved |-> bound]
  /\ afterDestroy' = afterDestroy \cup (IF life = "destroyed" /\ observing THEN {"broadcast"} ELSE {})
                    \cup (IF life = "destroyed" /\ bound THEN {"save"} ELSE {})
  /\ UNCHANGED <<life, lifeState, snapshotTimer, connectTimer, syncInterval, dialing,
                 hubOutgoing, observing, bound, ticks, now, lastTick>>
  /\ UNCHANGED lifeFrame

\* The hub stream ends: the reader's finally clears hubOutgoing.
LifeStreamCloses ==
  /\ hubOutgoing
  /\ hubOutgoing' = FALSE
  /\ UNCHANGED <<life, lifeState, snapshotTimer, connectTimer, syncInterval,
                 dialing, observing, bound, ticks, now, lastTick, lastEvent, afterDestroy>>
  /\ UNCHANGED lifeFrame

\* destroy(): clearInterval(syncInterval), the update observer and the
\* persistence binding are removed, an open hub stream is ended, the topic is
\* left.  The two timeouts and a dial in progress are not touched.
destroy ==
  /\ life = "live"
  /\ life' = "destroyed"
  /\ syncInterval' = FALSE
  /\ observing' = FALSE
  /\ bound' = FALSE
  /\ hubOutgoing' = FALSE
  /\ UNCHANGED <<lifeState, snapshotTimer, connectTimer, dialing, ticks, now,
                 lastTick, lastEvent, afterDestroy>>
  /\ UNCHANGED lifeFrame

\* messageHandler on a malformed gossip message.  Its whole body is inside
\* try/catch: dec throws, or no branch matches, or msg.update.length throws
\* before Y.applyUpdate; the listener stays registered.
messageHandlerOn(fault) ==
  [applied |-> FALSE, synced |-> FALSE, running |-> TRUE]

\* The hub stream reader on a malformed chunk.  dec(chunk.subarray()) is inside
\* the for-await loop and the try is around the loop: a chunk that does not
\* decode ends the loop.  An unknown type or a missing update matches no branch.
hubReaderOn(fault) ==
  [applied |-> FALSE, synced |-> FALSE, running |-> fault # "undecodable"]

\* A malformed message arrives on the topic or on the open hub stream.
LifeMalformed ==
  /\ \E path \in {"gossip", "hub-stream"}, fault \in Faults :
       LET r == IF path = "gossip" THEN messageHandlerOn(fault) ELSE hubReaderOn(fault) IN
       /\ IF path = "gossip" THEN life = "live" ELSE hubOutgoing
       /\ lifeState' = IF r.synced THEN "synced" ELSE lifeState
       /\ hubOutgoing' = IF path = "hub-stream" /\ ~r.running THEN FALSE ELSE hubOutgoing
       /\ lastEvent' = [kind |-> "fault", path |-> path, fault |-> fault,
                        applied |-> r.applied, synced |-> r.synced,
                        running |-> r.running]
  /\ UNCHANGED <<life, snapshotTimer, connectTimer, syncInterval, dialing, observing,
                 bound, ticks, now, lastTick, afterDestroy>>
  /\ UNCHANGED lifeFrame

\* The Y_UPDATE branch of the earlier revision (src/ydoc.js): the update is
\* applied and the sync state is left as it was.
onYUpdateEarlier(path, state, update) ==
  [origin |-> "network", applied |-> TRUE, state |-> state]

\* The Y_UPDATE branch of messageHandler (gossip) and of the hub stream reader:
\* Y.applyUpdate with origin 'network' or 'hub-stream', then syncState.
onYUpdate(path, state, update) ==
  IF path = "gossip"
  THEN [origin |-> "network", applied |-> TRUE,
        state |-> IF state # "synced" /\ UpdateLength(update) > 0
                  THEN "synced" ELSE state]
  ELSE [origin |-> "hub-stream", applied |-> TRUE,
        state |-> IF state # "synced" THEN "synced" ELSE state]

\* A Y_UPDATE of the room arrives on the topic or on the open hub stream.
LifeYUpdate ==
  /\ \E path \in {"gossip", "hub-stream"}, update \in SUBSET {"op"} :
       LET r == onYUpdate(path, lifeState, update) IN
       /\ IF path = "gossip" THEN life = "live" ELSE hubOutgoing
       /\ lifeState' = r.state
       /\ lastEvent' = [kind |-> "Y_UPDATE", path |-> path, was |-> lifeState,
                        origin |-> r.origin, applied |-> r.applied,
                        state |-> r.state]
  /\ UNCHANGED <<life, snapshotTimer, connectTimer, syncInterval, dialing, hubOutgoing,
                 observing, bound, ticks, now, lastTick, afterDestroy>>
  /\ UNCHANGED lifeFrame

NextLife ==
  \/ LifeCreate
  \/ LifeConnectFires
  \/ LifeDialSettles
  \/ LifeSnapshotFires
  \/ LifeTick
  \/ LifeSynced
  \/ LifeUpdate
  \/ LifeStreamCloses
  \/ LifeMalformed
  \/ LifeYUpdate
  \/ destroy

(***************************************************************************)
(* Claims about the life of a room document.                               *)
(***************************************************************************)

\* C22 (Snapshot requests are not starved): a retry tick of a document that is
\* not synced skips the publish exactly when the topic has no subscriber, some
\* peer is connected and less than 10 s have passed since sync start; from
\* 10 s on every such tick publishes whatever the subscriber count; and a
\* document that is not synced eventually publishes a SNAPSHOT_REQUEST (or
\* gets synced, or is destroyed).
C22_RequestNotStarved ==
  /\ [](lastTick.kind = "tick" =>
          lastTick.published =
            (/\ lastTick.state # "synced"
             /\ ~(/\ lastTick.peers = 0
                  /\ lastTick.allPeers > 0
                  /\ lastTick.waitingTime < MESH_TIMEOUT_MS)))
  /\ (life = "live" /\ lifeState # "synced")
       ~> (lastTick.published \/ lifeState = "synced" \/ life = "destroyed")

\* A tick past the mesh timeout published with no subscriber reported.
C22_Witness ==
  /\ lastTick.kind = "tick"
  /\ lastTick.state # "synced"
  /\ lastTick.peers = 0
  /\ lastTick.allPeers > 0
  /\ lastTick.waitingTime >= MESH_TIMEOUT_MS
  /\ lastTick.published
  /\ life = "live"

\* C25 (Malformed messages are dropped): a message that does not decode, has
\* an unknown type or lacks its update changes neither the document nor the
\* sync state and leaves the handler that received it running, on the topic
\* and on the hub stream.
C25_MalformedDropped ==
  lastEvent.kind = "fault" =>
    ~lastEvent.applied /\ ~lastEvent.synced /\ lastEvent.running

\* C30 (Y_UPDATE marks synced): once a peer has handled a Y_UPDATE of its room,
\* from the topic or from the hub stream, the update is applied with an origin
\* that is not local and the sync state is 'synced'.
C30_UpdateMarksSynced ==
  lastEvent.kind = "Y_UPDATE" =>
    /\ lastEvent.applied
    /\ lastEvent.origin \in {"network", "hub-stream"}
    /\ lastEvent.state = "synced"

\* A peer that was syncing handled a Y_UPDATE from the topic and is synced.
C30_Witness ==
  /\ lastEvent.kind = "Y_UPDATE"
  /\ lastEvent.path = "gossip"
  /\ lastEvent.was = "syncing"
  /\ lastEvent.state = "synced"
  /\ lifeState = "synced"
  /\ life = "live"

\* C23 (destroy is final): once destroy() has run the document publishes no
\* SNAPSHOT_REQUEST, dials no hub stream and has none open, and broadcasts and
\* saves no update.
C23_DestroyIsFinal ==
  life = "destroyed" => (afterDestroy = {} /\ ~hubOutgoing)

(***************************************************************************)
(* ===================  BROWSER-LOCAL STATE OF A PAGE  ==================  *)
(* Message metadata set by publish() (src/room.js), the lists kept in      *)
(* localStorage (src/store.js) and the view router (src/router.js).        *)
(***************************************************************************)

\* msg.type values publish() is called with.
MsgTypes ==
  {"HELLO", "MANIFEST", "CHAT", "REQUEST", "ACK",
   "SNAPSHOT_REQUEST", "Y_UPDATE", "SNAPSHOT", "FILE_REQUEST"}

\* msg.msgId of a caller: undefined, the empty string or an id of its own.
MsgIds == {<<"undefined", 0>>, <<"", 0>>, <<"own", 1>>}

\* msg.ttl of a caller, as <<typeof, value>>.
MsgTtls == {<<"undefined", 0>>, <<"string", 1>>, <<"number", 0>>, <<"number", 2>>}

NoPub == [kind |-> "none"]

\* Keys of the two lists in localStorage.
LS_DROPS == "wc:drops"

LS_ROOMS == "wc:rooms"

Ids == {"a", "b"}

Names == {"n1", "n2"}

NoItem == [set |-> FALSE, value |-> <<>>]

NoSave == [kind |-> "none"]

views == {"home", "drops", "rooms", "peers"}

\* Arguments goto() is called with: a view, another name, or nothing.
ViewArgs == views \cup {"settings", "undefined"}

NoGoto == "(none)"

InitLocal ==
  /\ issued = 0
  /\ lastPub = NoPub
  /\ localStorage = [k \in {LS_DROPS, LS_ROOMS} |-> NoItem]
  /\ saves = 0
  /\ lastSave = NoSave
  /\ search \in {<<>>} \cup {<<v>> : v \in ViewArgs}
  /\ hidden = [name \in views |-> name # "home"]
  /\ rendered = FALSE
  /\ lastGoto = NoGoto

\* ---- publish(): msgId and ttl defaults ----

\* typeof msg.ttl !== "number" ? (HELLO | MANIFEST | CHAT ? 1 : 0) : msg.ttl
defaultTtl(type, ttl) ==
  IF ttl[1] = "number" THEN ttl
  ELSE <<"number", IF type \in {"HELLO", "MANIFEST", "CHAT"} THEN 1 ELSE 0>>

\* !msg.msgId ? randomUUID() + "-" + Date.now() : msg.msgId
defaultMsgId(msgId, n) ==
  IF msgId[1] \in {"undefined", ""} THEN <<"uuid", n>> ELSE msgId

\* publish(roomId, msg), as far as the metadata of msg goes.
PublishMeta ==
  /\ issued < MaxIssued
  /\ \E type \in MsgTypes, msgId \in MsgIds, ttl \in MsgTtls :
       /\ issued' = issued + 1
       /\ lastPub' = [kind |-> "publish", type |-> type, msgId |-> msgId, ttl |-> ttl,
                      before |-> IF lastPub.kind = "publish" THEN lastPub.outId
                                 ELSE <<"undefined", 0>>,
                      outId |-> defaultMsgId(msgId, issued + 1),
                      outTtl |-> defaultTtl(type, ttl)]
  /\ UNCHANGED <<localStorage, saves, lastSave, search, hidden, rendered, lastGoto>>
  /\ UNCHANGED localFrame

NextMeta == PublishMeta

\* ---- store.js ----

\* read(k, d): JSON.parse(localStorage.getItem(k) || 'null') ?? d
read(k, d) == IF localStorage[k].set THEN localStorage[k].value ELSE d

\* write(k, v): localStorage.setItem(k, JSON.stringify(v))
write(k, v) == [localStorage EXCEPT ![k] = [set |-> TRUE, value |-> v]]

getDrops == read(LS_DROPS, <<>>)

getRooms == read(LS_ROOMS, <<>>)

\* all.findIndex(e => e.id === id), counted from 1; 0 when there is none.
findIndex(all, id) ==
  IF \E i \in 1..Len(all) : all[i].id = id
  THEN CHOOSE i \in 1..Len(all) :
         all[i].id = id /\ \A j \in 1..(i - 1) : all[j].id # id
  ELSE 0

\* { ...old, ...room }: a key of room wins over the same key of old.
spread(old, room) ==
  [id |-> room.id,
   keys |-> old.keys \cup room.keys,
   name |-> IF "name" \in room.keys THEN room.name ELSE old.name,
   lastSeen |-> IF "lastSeen" \in room.keys THEN room.lastSeen ELSE old.lastSeen]

\* { ...e, lastSeen: Date.now() }
stamped(e, t) == [e EXCEPT !.keys = @ \cup {"lastSeen"}, !.lastSeen = t]

unshiftAlways(all, idx, e) == <<e>> \o all

\* idx >= 0 ? all[idx] = e : all.unshift(e)
put(all, idx, e) == IF idx > 0 THEN [all EXCEPT ![idx] = e] ELSE <<e>> \o all

saveDrop(drop) ==
  LET all == getDrops
      idx == findIndex(all, drop.id)
  IN  /\ saves < MaxSaves
      /\ saves' = saves + 1
      /\ localStorage' = write(LS_DROPS, put(all, idx, drop))
      /\ lastSave' = [kind |-> LS_DROPS, entry |-> drop, idx |-> idx, len |-> Len(all),
                      t |-> saves + 1]
      /\ UNCHANGED <<issued, lastPub, search, hidden, rendered, lastGoto>>
      /\ UNCHANGED localFrame

\* Date.now() is the number of the save.
saveRoom(room) ==
  LET all == getRooms
      idx == findIndex(all, room.id)
      t   == saves + 1
      e   == IF idx > 0 THEN stamped(spread(all[idx], room), t) ELSE stamped(room, t)
  IN  /\ saves < MaxSaves
      /\ saves' = t
      /\ localStorage' = write(LS_ROOMS, put(all, idx, e))
      /\ lastSave' = [kind |-> LS_ROOMS, entry |-> room, idx |-> idx, len |-> Len(all),
                      t |-> t]
      /\ UNCHANGED <<issued, lastPub, search, hidden, rendered, lastGoto>>
      /\ UNCHANGED localFrame

\* getRooms().find(r => r.id === roomId), as the list of the entries found first.
getRoom(roomId) ==
  LET idx == findIndex(getRooms, roomId)
  IN  IF idx > 0 THEN <<getRooms[idx]>> ELSE <<>>

\* A drop a caller saves, and a room a caller saves: with or without a name,
\* with or without a lastSeen of its own (an earlier time, or this very ms).
DropsSaved == [id : Ids, name : Names]

RoomsSaved ==
  {[id |-> i, keys |-> {}, name |-> "", lastSeen |-> 0] : i \in Ids}
    \cup {[id |-> i, keys |-> {"name"}, name |-> n, lastSeen |-> 0] :
            i \in Ids, n \in Names}
    \cup {[id |-> i, keys |-> {"name", "lastSeen"}, name |-> n, lastSeen |-> t] :
            i \in Ids, n \in {"n1"}, t \in {0, saves + 1}}

\* ---- router.js ----

\* views.includes(v) ? v : 'home', for the search string sp.
viewOf(sp) == IF sp # <<>> /\ sp[1] \in views THEN sp[1] ELSE "home"

currentView == viewOf(search)

\* The search string goto pushes.
pushed(view, extras) ==
  IF view = "home" /\ ~extras THEN <<>>
  ELSE IF extras THEN <<view, "k=v">> ELSE <<view>>

showOnly(v) == [name \in views |-> hidden[name] /\ name # v]

\* for (const name of views) el.hidden = name !== v
setHidden(v) == [name \in views |-> name # v]

renderView ==
  /\ hidden' = setHidden(currentView)
  /\ rendered' = TRUE
  /\ UNCHANGED <<issued, lastPub, localStorage, saves, lastSave, search, lastGoto>>
  /\ UNCHANGED localFrame

goto(view, extras) ==
  LET sp == pushed(view, extras)
  IN  /\ search' = sp
      /\ hidden' = setHidden(viewOf(sp))
      /\ rendered' = TRUE
      /\ lastGoto' = view
      /\ UNCHANGED <<issued, lastPub, localStorage, saves, lastSave>>
      /\ UNCHANGED localFrame

NextPage ==
  \/ \E drop \in DropsSaved : saveDrop(drop)
  \/ \E room \in RoomsSaved : saveRoom(room)
  \/ \E view \in ViewArgs, extras \in BOOLEAN : goto(view, extras)
  \/ renderView

(***************************************************************************)
(* Claims about the browser-local state.                                   *)
(***************************************************************************)

\* C26 (Message metadata defaults): publish() gives a message without msgId a
\* fresh one and keeps a msgId the caller set; it keeps a numeric ttl, and
\* otherwise sets ttl to 1 for SNAPSHOT_REQUEST, Y_UPDATE and SNAPSHOT and to
\* 0 for FILE_REQUEST.
C26_MetadataDefaults ==
  lastPub.kind = "publish" =>
    /\ lastPub.msgId[1] = "undefined" =>
         lastPub.outId[1] = "uuid" /\ lastPub.outId # lastPub.before
    /\ lastPub.msgId[1] = "own" => lastPub.outId = lastPub.msgId
    /\ lastPub.ttl[1] = "number" => lastPub.outTtl = lastPub.ttl
    /\ (lastPub.ttl[1] # "number"
          /\ lastPub.type \in {"SNAPSHOT_REQUEST", "Y_UPDATE", "SNAPSHOT"})
         => lastPub.outTtl = <<"number", 1>>
    /\ (lastPub.ttl[1] # "number" /\ lastPub.type = "FILE_REQUEST")
         => lastPub.outTtl = <<"number", 0>>

\* No two entries of a stored list have the same id.
OnePerId(all) == \A i, j \in 1..Len(all) : all[i].id = all[j].id => i = j

\* The last save changed the list as the claim says: in place for an id that
\* was present, one more entry for a new id.
SavedInPlace(all) ==
  /\ lastSave.idx > 0 =>
       Len(all) = lastSave.len /\ all[lastSave.idx].id = lastSave.entry.id
  /\ lastSave.idx = 0 =>
       Len(all) = lastSave.len + 1 /\ findIndex(all, lastSave.entry.id) > 0

\* C27 (Store lists hold one entry per id): the stored lists hold at most one
\* entry per id; a save under a present id leaves length and position as they
\* were, a save under a new id adds one entry; and the entry found under the
\* id carries every field of the latest save.
C27_OneEntryPerId ==
  /\ OnePerId(getDrops) /\ OnePerId(getRooms)
  /\ lastSave.kind = LS_DROPS =>
       /\ SavedInPlace(getDrops)
       /\ getDrops[findIndex(getDrops, lastSave.entry.id)] = lastSave.entry
  /\ lastSave.kind = LS_ROOMS =>
       /\ SavedInPlace(getRooms)
       /\ getRoom(lastSave.entry.id) # <<>>
       /\ LET r == getRoom(lastSave.entry.id)[1]
          IN  /\ lastSave.entry.keys \subseteq r.keys
              /\ "name" \in lastSave.entry.keys => r.name = lastSave.entry.name
              /\ "lastSeen" \in lastSave.entry.keys =>
                   r.lastSeen = lastSave.entry.lastSeen

\* C27 as it holds: the entry found under the id carries every field of the
\* latest save but lastSeen, which is the time of that save whatever the
\* caller passed.
C27_OneEntryPerIdStamped ==
  /\ OnePerId(getDrops) /\ OnePerId(getRooms)
  /\ lastSave.kind = LS_DROPS =>
       /\ SavedInPlace(getDrops)
       /\ getDrops[findIndex(getDrops, lastSave.entry.id)] = lastSave.entry
  /\ lastSave.kind = LS_ROOMS =>
       /\ SavedInPlace(getRooms)
       /\ getRoom(lastSave.entry.id) # <<>>
       /\ LET r == getRoom(lastSave.entry.id)[1]
          IN  /\ lastSave.entry.keys \subseteq r.keys
              /\ "name" \in lastSave.entry.keys => r.name = lastSave.entry.name
              /\ "lastSeen" \in r.keys /\ r.lastSeen = lastSave.t

\* A room was saved again under its id, with a lastSeen of the caller's, while
\* another room is stored behind it.
C27_Witness ==
  /\ lastSave.kind = LS_ROOMS
  /\ lastSave.idx = 2
  /\ "lastSeen" \in lastSave.entry.keys
  /\ lastSave.entry.lastSeen # lastSave.t
  /\ Len(getRooms) = 2

\* C28 (One view visible): once goto or renderView has run exactly one of the
\* four sections is visible, it is the one currentView() names, and
\* currentView() is the view passed to the last goto if that is one of the
\* four names and 'home' otherwise.
C28_OneViewVisible ==
  rendered =>
    /\ Cardinality({name \in views : ~hidden[name]}) = 1
    /\ ~hidden[currentView]
    /\ lastGoto # NoGoto =>
         currentView = (IF lastGoto \in views THEN lastGoto ELSE "home")

\* goto was called with a name that is no view, and home is shown.
C28_Witness ==
  /\ rendered
  /\ lastGoto = "settings"
  /\ search = <<"settings", "k=v">>
  /\ ~hidden["home"]

(***************************************************************************)
(* ===============  ROOM MANAGER: HANDLERS OF A ROOM TOPIC  =============  *)
(* subscribe(roomId, handler) of the room manager, its unsubscribe closure, *)
(* destroyRoom, and the topic subscription it shares with the room's       *)
(* document (createYDoc subscribes, destroy unsubscribes).                 *)
(***************************************************************************)

SubCalls == 1..MaxSubs

\* msg.type of the messages of a room topic, split at '_'.
TopicTypes ==
  {<<"Y", "UPDATE">>, <<"SNAPSHOT", "REQUEST">>, <<"SNAPSHOT">>,
   <<"SYNC", "FULL", "STATE">>, <<"FILE", "REQUEST">>}

NoDispatch == [type |-> <<>>, registered |-> {}, left |-> {},
               invoked |-> [k \in SubCalls |-> 0]]

InitTopic ==
  /\ subCalls = 0
  /\ setOfCall = [k \in SubCalls |-> 0]
  /\ inSet = [k \in SubCalls |-> FALSE]
  /\ listening = [k \in SubCalls |-> FALSE]
  /\ unsubscribed = [k \in SubCalls |-> FALSE]
  /\ mapSet = 0
  /\ topicSub = FALSE
  /\ docAlive = FALSE
  /\ lastDispatch = NoDispatch

\* msg.type?.startsWith(prefix + '_')
startsWith(type, prefix) == Len(type) > 1 /\ type[1] = prefix

\* The listener goes on to the handlers: it returns for types that start with
\* 'Y_' or 'SYNC_'.
dispatches(type) == ~(startsWith(type, "Y") \/ startsWith(type, "SYNC"))

\* The handlers in the Set object that subscribe call g created.
setMembers(g) == {k \in SubCalls : setOfCall[k] = g /\ inSet[k]}

\* subscribe(roomId, handler): the room's Set is taken from handlers or made
\* and put there, the handler is added, a listener of its own is registered
\* and the topic is subscribed.
TopicSubscribe ==
  /\ subCalls < MaxSubs
  /\ LET k == subCalls + 1
         g == IF mapSet = 0 THEN k ELSE mapSet
     IN  /\ subCalls' = k
         /\ mapSet' = g
         /\ setOfCall' = [setOfCall EXCEPT ![k] = g]
         /\ inSet' = [inSet EXCEPT ![k] = TRUE]
         /\ listening' = [listening EXCEPT ![k] = TRUE]
         /\ topicSub' = TRUE
  /\ UNCHANGED <<unsubscribed, docAlive, lastDispatch>>
  /\ UNCHANGED topicFrame

\* The function subscribe call k returned: the handler leaves its Set; if the
\* Set is empty now, handlers.delete(roomId), the listener of call k is
\* removed and the topic is unsubscribed.
TopicUnsubscribe(k) ==
  /\ k <= subCalls
  /\ ~unsubscribed[k]
  /\ unsubscribed' = [unsubscribed EXCEPT ![k] = TRUE]
  /\ inSet' = [inSet EXCEPT ![k] = FALSE]
  /\ IF setMembers(setOfCall[k]) \ {k} = {}
     THEN /\ mapSet' = 0
          /\ listening' = [listening EXCEPT ![k] = FALSE]
          /\ topicSub' = FALSE
     ELSE UNCHANGED <<mapSet, listening, topicSub>>
  /\ UNCHANGED <<subCalls, setOfCall, docAlive, lastDispatch>>
  /\ UNCHANGED topicFrame

\* How often handler h runs for one message: every registered listener walks
\* the Set it captured.
invocations(h, type) ==
  IF dispatches(type) /\ inSet[h]
  THEN Cardinality({k \in SubCalls : listening[k] /\ setOfCall[k] = setOfCall[h]})
  ELSE 0

\* A message of the room topic arrives (the node is subscribed to the topic).
TopicMessage ==
  /\ topicSub
  /\ \E type \in TopicTypes :
       lastDispatch' = [type |-> type,
                        registered |-> {k \in SubCalls : inSet[k]},
                        left |-> {k \in SubCalls : unsubscribed[k]},
                        invoked |-> [h \in SubCalls |-> invocations(h, type)]]
  /\ UNCHANGED <<subCalls, setOfCall, inSet, listening, unsubscribed, mapSet,
                 topicSub, docAlive>>
  /\ UNCHANGED topicFrame

\* createYDoc: the document subscribes to the topic and registers its listener.
TopicDocCreate ==
  /\ ~docAlive
  /\ docAlive' = TRUE
  /\ topicSub' = TRUE
  /\ UNCHANGED <<subCalls, setOfCall, inSet, listening, unsubscribed, mapSet,
                 lastDispatch>>
  /\ UNCHANGED topicFrame

\* destroyRoom(roomId): ydoc.destroy() (its listener removed, the topic
\* unsubscribed), ydocs.delete, handlers.delete, joinedRooms.delete.
TopicDestroyRoom ==
  /\ docAlive
  /\ docAlive' = FALSE
  /\ topicSub' = FALSE
  /\ mapSet' = 0
  /\ UNCHANGED <<subCalls, setOfCall, inSet, listening, unsubscribed, lastDispatch>>
  /\ UNCHANGED topicFrame

NextTopic ==
  \/ TopicSubscribe
  \/ \E k \in SubCalls : TopicUnsubscribe(k)
  \/ TopicMessage
  \/ TopicDocCreate
  \/ TopicDestroyRoom

(***************************************************************************)
(* Claims about the handlers of a room topic.                              *)
(***************************************************************************)

\* C32 (Handlers get control messages only): no Y_UPDATE, SNAPSHOT_REQUEST,
\* SNAPSHOT or SYNC_FULL_STATE message is dispatched to a handler registered
\* through subscribe.
C32_ControlOnly ==
  lastDispatch.type \in {<<"Y", "UPDATE">>, <<"SNAPSHOT", "REQUEST">>,
                         <<"SNAPSHOT">>, <<"SYNC", "FULL", "STATE">>}
    => \A h \in SubCalls : lastDispatch.invoked[h] = 0

\* C39 (Dispatch exactly once): a control message is dispatched exactly once
\* to every handler registered when it arrives, and never to a handler whose
\* unsubscribe function was called.
C39_DispatchOnce ==
  lastDispatch.type = <<"FILE", "REQUEST">> =>
    /\ \A h \in lastDispatch.registered : lastDispatch.invoked[h] = 1
    /\ \A h \in lastDispatch.left : lastDispatch.invoked[h] = 0

\* C40 (Topic subscription is kept): while the room document is alive, and
\* while a handler is registered and listening, the node is subscribed to the
\* room topic.
C40_TopicKept ==
  /\ docAlive => topicSub
  /\ (\E k \in SubCalls : inSet[k] /\ listening[k]) => topicSub

(***************************************************************************)
(* ===========================  MANAGER  ================================  *)
(* The room manager's map of documents: getYDoc(roomId), which join awaits *)
(* first, and destroyRoom(roomId).  getYDoc is an async function: it runs  *)
(* to its await in the call, and the rest runs when the promise of         *)
(* createYDoc has resolved, in the order the awaits were made.             *)
(***************************************************************************)
RoomIds == {"r1", "r2"}

NoDoc == <<"none", 0>>

InitMgr ==
  /\ ydocMap = [r \in RoomIds |-> NoDoc]
  /\ createdFor = <<>>
  /\ loaded = {}
  /\ liveDocs = {}
  /\ getCalls = <<>>
  /\ condemned = {}

\* A getYDoc that registers nothing before its await.
registeredLate(d) == NoDoc

\* ydocs.set(roomId, ydocPromise), before the await.
registered(d) == <<"promise", d>>

\* getYDoc(roomId) up to its await or return.
MgrGetYDoc(r) ==
  /\ Len(getCalls) < MaxGets
  /\ LET existing == ydocMap[r]
         d == Len(createdFor) + 1
     IN  IF existing = NoDoc
         THEN /\ createdFor' = Append(createdFor, r)
              /\ ydocMap' = [ydocMap EXCEPT ![r] = registered(d)]
              /\ getCalls' = Append(getCalls,
                   [room |-> r, path |-> "create", pc |-> "suspended", doc |-> d])
         ELSE /\ getCalls' = Append(getCalls,
                   [room |-> r,
                    path |-> IF existing[1] = "promise" THEN "await" ELSE "ready",
                    pc |-> IF existing[1] = "promise" THEN "suspended" ELSE "returned",
                    doc |-> existing[2]])
              /\ UNCHANGED <<ydocMap, createdFor>>
  /\ UNCHANGED <<loaded, liveDocs, condemned>>
  /\ UNCHANGED mgrFrame

\* The promise of createYDoc resolves: the document has loaded its state,
\* subscribed to the topic and set its timers.
MgrDocLoaded(d) ==
  /\ d \in 1..Len(createdFor)
  /\ d \notin loaded
  /\ loaded' = loaded \cup {d}
  /\ liveDocs' = liveDocs \cup {d}
  /\ UNCHANGED <<ydocMap, createdFor, getCalls, condemned>>
  /\ UNCHANGED mgrFrame

\* getYDoc after its await: the call that made the promise replaces it with
\* the document; every call returns the document it awaited.
MgrResume(n) ==
  /\ n \in 1..Len(getCalls)
  /\ getCalls[n].pc = "suspended"
  /\ getCalls[n].doc \in loaded
  /\ \A m \in 1..(n - 1) : getCalls[m].doc = getCalls[n].doc => getCalls[m].pc = "returned"
  /\ getCalls' = [getCalls EXCEPT ![n].pc = "returned"]
  /\ ydocMap' = IF getCalls[n].path = "create"
                THEN [ydocMap EXCEPT ![getCalls[n].room] = <<"doc", getCalls[n].doc>>]
                ELSE ydocMap
  /\ UNCHANGED <<createdFor, loaded, liveDocs, condemned>>
  /\ UNCHANGED mgrFrame

\* destroyRoom(roomId): destroy() is called on what the map holds if it has
\* such a function, which a promise has not; then the entry is deleted.  The
\* handlers of the room are in the topic component.
MgrDestroyRoom(r) ==
  /\ LET ydoc == ydocMap[r]
     IN  /\ liveDocs' = IF ydoc[1] = "doc" THEN liveDocs \ {ydoc[2]} ELSE liveDocs
         /\ condemned' = IF ydoc = NoDoc THEN condemned ELSE condemned \cup {ydoc[2]}
  /\ ydocMap' = [ydocMap EXCEPT ![r] = NoDoc]
  /\ UNCHANGED <<createdFor, loaded, getCalls>>
  /\ UNCHANGED mgrFrame

\* The manager without destroyRoom.
NextManager ==
  \/ \E r \in RoomIds : MgrGetYDoc(r)
  \/ \E d \in 1..MaxGets : MgrDocLoaded(d)
  \/ \E n \in 1..MaxGets : MgrResume(n)

NextDestroy ==
  \/ \E r \in RoomIds : MgrGetYDoc(r)
  \/ \E d \in 1..MaxGets : MgrDocLoaded(d)
  \/ \E n \in 1..MaxGets : MgrResume(n)
  \/ \E r \in RoomIds : MgrDestroyRoom(r)

(***************************************************************************)
(* Claims about the manager's documents.                                   *)
(***************************************************************************)

\* C37 (One document per room): concurrent getYDoc calls for a room run
\* createYDoc once, and every call that has returned got the one document the
\* map holds for the room, also a call made while the first was loading.
C37_OneDocument ==
  \A r \in RoomIds :
    /\ Cardinality({d \in 1..Len(createdFor) : createdFor[d] = r}) <= 1
    /\ \A n \in 1..Len(getCalls) :
         (getCalls[n].room = r /\ getCalls[n].pc = "returned")
           => ydocMap[r] = <<"doc", getCalls[n].doc>>

\* A second call arrived while the first was loading, and both have returned.
C37_Witness ==
  \E n, m \in 1..Len(getCalls) :
    /\ getCalls[n].room = getCalls[m].room
    /\ getCalls[n].path = "create" /\ getCalls[n].pc = "returned"
    /\ getCalls[m].path = "await" /\ getCalls[m].pc = "returned"

\* C38 (Destroy leaves nothing): a document that the room had, pending or
\* created, when destroyRoom ran is not registered in the manager and does
\* not run once its creation has finished.
C38_DestroyedGone ==
  \A d \in condemned :
    d \in loaded => (d \notin liveDocs /\ ydocMap[createdFor[d]] # <<"doc", d>>)

(***************************************************************************)
(* ========================  SPECIFICATIONS  ============================  *)
(* Each specification runs one component; the components it leaves alone    *)
(* start with nothing stored.                                              *)
(***************************************************************************)
Init ==
  /\ InitSync /\ InitHub /\ InitPersist /\ InitOutbox /\ InitSeen /\ InitJoin
  /\ InitPin /\ InitLife /\ InitLocal /\ InitTopic /\ InitMgr

InitAtRest ==
  /\ Init /\ hubDisk = NoFile /\ provider = "opfs" /\ pstore = NoFile /\ search = <<>>
  /\ streamPeer = TwoPeers

InitOfHub ==
  /\ Init /\ provider = "opfs" /\ pstore = NoFile /\ search = <<>>
  /\ streamPeer = TwoPeers

InitOfHubPeer ==
  /\ Init /\ provider = "opfs" /\ pstore = NoFile /\ search = <<>>
  /\ streamPeer = OnePeer

InitOfPersist == Init /\ hubDisk = NoFile /\ search = <<>> /\ streamPeer = TwoPeers

InitOfPage ==
  Init /\ hubDisk = NoFile /\ provider = "opfs" /\ pstore = NoFile /\ streamPeer = TwoPeers

SpecSync == InitAtRest /\ [][NextSync]_vars

SpecHub == InitOfHub /\ [][NextHub]_vars

\* The hub with every stream opened by the same peer.
SpecHubPeer == InitOfHubPeer /\ [][NextHub]_vars

SpecPersist == InitOfPersist /\ [][NextPersist]_vars

SpecOutbox == InitAtRest /\ [][NextOutbox]_vars

SpecSeen == InitAtRest /\ [][NextSeen]_vars

SpecJoin == InitAtRest /\ [][NextJoin]_vars

SpecPin == InitAtRest /\ [][NextPin]_vars

SpecMeta == InitAtRest /\ [][NextMeta]_vars

SpecPage == InitOfPage /\ [][NextPage]_vars

SpecTopic == InitAtRest /\ [][NextTopic]_vars

SpecManager == InitAtRest /\ [][NextManager]_vars

\* The manager with destroyRoom.
SpecDestroy == InitAtRest /\ [][NextDestroy]_vars

SpecLife == InitAtRest /\ [][NextLife]_vars

\* An interval that is set keeps firing.
SpecLifeLive == SpecLife /\ WF_vars(LifeTick)

\* Timers fire and promises settle: the event loop runs every callback that is
\* due.
SpecOutboxLive ==
  SpecOutbox /\ WF_vars(TimerFire) /\ WF_vars(PublishSettles)

====
